---- MODULE Spec2Model ----
(***************************************************************************)
(* A model of coverport: the collect / discover / process commands of the  *)
(* Go CLI, the Node.js coverage client and the Node.js coverage server.    *)
(*                                                                         *)
(* Strings the program takes apart (image references, namespaces,         *)
(* component names, label values) are sequences of one-character strings;  *)
(* names that are only compared (pod names, container names) are strings.  *)
(***************************************************************************)
EXTENDS Integers, Sequences, FiniteSets, TLC

(***************************************************************************)
(* String helpers (Go's strings package on sequences of characters)        *)
(***************************************************************************)

\* strings.Index(s, c): position of the first c, 0 when absent (Go: -1)
Index(s, c) ==
    IF \E i \in 1..Len(s) : s[i] = c
    THEN CHOOSE i \in 1..Len(s) : s[i] = c /\ \A j \in 1..(i - 1) : s[j] # c
    ELSE 0

\* strings.LastIndex(s, c): position of the last c, 0 when absent
LastIndex(s, c) ==
    IF \E i \in 1..Len(s) : s[i] = c
    THEN CHOOSE i \in 1..Len(s) : s[i] = c /\ \A j \in (i + 1)..Len(s) : s[j] # c
    ELSE 0

\* strings.Contains(s, c) for a one-character c
Contains(s, c) == \E i \in 1..Len(s) : s[i] = c

\* strings.HasPrefix(s, p)
HasPrefix(s, p) == Len(p) <= Len(s) /\ SubSeq(s, 1, Len(p)) = p

\* s[:i-1] in Go terms: the part of s before position i
Before(s, i) == SubSeq(s, 1, i - 1)

\* s[i-1:] in Go terms: the part of s from position i on
From(s, i) == SubSeq(s, i, Len(s))

\* the last element of strings.Split(s, "/")
LastPathPart(s) == From(s, LastIndex(s, "/") + 1)

RECURSIVE ConcatAll(_)
ConcatAll(ss) == IF ss = <<>> THEN <<>> ELSE Head(ss) \o ConcatAll(Tail(ss))

EmptyStr == <<>>

(***************************************************************************)
(* internal/discovery                                                      *)
(***************************************************************************)

\* a mutant of normalizeImageRef that strips nothing
normalizeImageRef_keep(image) == image

normalizeImageRef(image) ==
    LET idx == LastIndex(image, ":")
        noTag == IF idx # 0 /\ ~Contains(From(image, idx), "@")
                 THEN Before(image, idx) ELSE image
        at == Index(noTag, "@")
    IN  IF at # 0 THEN Before(noTag, at) ELSE noTag

matchesImage(image1, image2) == image1 = image2

LabelOrder == <<"app.kubernetes.io/name", "app", "app.kubernetes.io/component">>

\* the fallback of extractComponentName: the image's last path part, cut at
\* the first ":" and then at the first "@"
ImageBasename(image) ==
    LET imageName == LastPathPart(image)
        c == Index(imageName, ":")
        noTag == IF c # 0 THEN Before(imageName, c) ELSE imageName
        a == Index(noTag, "@")
    IN  IF a # 0 THEN Before(noTag, a) ELSE noTag

\* a mutant of extractComponentName that ignores the pod's labels
extractComponentName_nolabels(labels, image) == ImageBasename(image)

extractComponentName(labels, image) ==
    IF LabelOrder[1] \in DOMAIN labels THEN labels[LabelOrder[1]]
    ELSE IF LabelOrder[2] \in DOMAIN labels THEN labels[LabelOrder[2]]
    ELSE IF LabelOrder[3] \in DOMAIN labels THEN labels[LabelOrder[3]]
    ELSE ImageBasename(image)

\* cmd/collect.go keeps its own copy of the same function
extractComponentNameFromLabels(labels, image) ==
    IF "app.kubernetes.io/name" \in DOMAIN labels THEN labels["app.kubernetes.io/name"]
    ELSE IF "app" \in DOMAIN labels THEN labels["app"]
    ELSE IF "app.kubernetes.io/component" \in DOMAIN labels
         THEN labels["app.kubernetes.io/component"]
    ELSE ImageBasename(image)

\* the deny-list of isSystemNamespace, each entry with its ".*" suffix trimmed
SystemNamespacePrefixes ==
    { <<"k","u","b","e","-","s","y","s","t","e","m">>,
      <<"k","u","b","e","-","p","u","b","l","i","c">>,
      <<"k","u","b","e","-","n","o","d","e","-","l","e","a","s","e">>,
      <<"o","p","e","n","s","h","i","f","t">>,
      <<"o","p","e","n","s","h","i","f","t","-">>,
      <<"d","e","f","a","u","l","t">> }

isSystemNamespace(ns) == \E p \in SystemNamespacePrefixes : HasPrefix(ns, p)

PodInfo(pod, componentName, image, containerName) ==
    [ Name |-> pod.name, Namespace |-> pod.ns, ComponentName |-> componentName,
      Image |-> image, ContainerName |-> containerName ]

\* imageSet of DiscoverPodsByImages: normalized -> original, a later image
\* replacing an earlier one with the same normalized form
ImageSetOf(images) ==
    [ n \in {normalizeImageRef(images[i]) : i \in 1..Len(images)} |->
        images[CHOOSE i \in 1..Len(images) :
                 /\ normalizeImageRef(images[i]) = n
                 /\ \A j \in (i + 1)..Len(images) : normalizeImageRef(images[j]) # n] ]

\* the targets one running pod contributes: one per container whose
\* normalized image is a key of imageSet
PodTargetsByImage(pod, imageSet) ==
    ConcatAll([ i \in 1..Len(pod.containers) |->
        LET container == pod.containers[i]
            n == normalizeImageRef(container.image)
        IN  IF \E t \in DOMAIN imageSet : matchesImage(n, t)
            THEN LET originalTarget == imageSet[n]
                 IN  << PodInfo(pod, extractComponentName(pod.labels, originalTarget),
                                originalTarget, container.name) >>
            ELSE <<>> ])

PodsOf(cluster, ns) == SelectSeq(cluster, LAMBDA p : p.ns = ns)

\* a mutant of DiscoverPodsByImages that does not skip pods that are not running
NamespaceTargetsByImage_anyphase(cluster, ns, imageSet) ==
    ConcatAll([ i \in 1..Len(PodsOf(cluster, ns)) |->
        PodTargetsByImage(PodsOf(cluster, ns)[i], imageSet) ])

NamespaceTargetsByImage(cluster, ns, imageSet) ==
    ConcatAll([ i \in 1..Len(PodsOf(cluster, ns)) |->
        LET pod == PodsOf(cluster, ns)[i]
        IN  IF pod.phase # "Running" THEN <<>> ELSE PodTargetsByImage(pod, imageSet) ])

\* api: [nsListFails, podListFails (a set of namespaces), getFails (a set of pod names)]
DiscoverPodsByImages(cluster, nsNames, api, images, namespace) ==
    LET imageSet == ImageSetOf(images)
        namespaces == IF namespace # EmptyStr THEN <<namespace>>
                      ELSE SelectSeq(nsNames, LAMBDA n : ~isSystemNamespace(n))
    IN  IF namespace = EmptyStr /\ api.nsListFails
        THEN [err |-> "list namespaces", pods |-> <<>>, calls |-> 1, listed |-> <<>>]
        ELSE [err |-> "",
              pods |-> ConcatAll([ i \in 1..Len(namespaces) |->
                          IF namespaces[i] \in api.podListFails THEN <<>>
                          ELSE NamespaceTargetsByImage(cluster, namespaces[i], imageSet) ]),
              calls |-> Len(namespaces) + (IF namespace = EmptyStr THEN 1 ELSE 0),
              listed |-> namespaces]

\* a label selector "key=value"
MatchesSelector(pod, selector) ==
    selector.key \in DOMAIN pod.labels /\ pod.labels[selector.key] = selector.value

DiscoverPodsByLabelSelector(cluster, api, namespace, selector) ==
    IF namespace \in api.podListFails
    THEN [err |-> "list pods", pods |-> <<>>, calls |-> 1, listed |-> <<namespace>>]
    ELSE LET listed == SelectSeq(PodsOf(cluster, namespace),
                                 LAMBDA p : MatchesSelector(p, selector))
             running == SelectSeq(listed, LAMBDA p : p.phase = "Running")
         IN  [err |-> "",
              pods |-> [ i \in 1..Len(running) |->
                  LET pod == running[i]
                      containerName == IF Len(pod.containers) > 0
                                       THEN pod.containers[1].name ELSE ""
                      image == IF Len(pod.containers) > 0
                               THEN pod.containers[1].image ELSE EmptyStr
                  IN  PodInfo(pod, extractComponentName(pod.labels, image),
                              image, containerName) ],
              calls |-> 1, listed |-> <<namespace>>]


\* discoverPodsFromNames: one Get per name, the first failing Get ends the
\* discovery with an error; a pod that is not running is skipped
RECURSIVE NamesWalk(_, _, _, _, _, _)
NamesWalk(cluster, api, namespace, names, acc, calls) ==
    IF names = <<>> THEN [err |-> "", pods |-> acc, calls |-> calls, listed |-> <<>>]
    ELSE LET podName == Head(names)
             found == SelectSeq(PodsOf(cluster, namespace), LAMBDA p : p.name = podName)
         IN  IF podName \in api.getFails \/ found = <<>>
             THEN [err |-> "get pod", pods |-> <<>>, calls |-> calls + 1,
                   listed |-> <<>>]
             ELSE LET pod == found[1]
                      containerName == IF Len(pod.containers) > 0
                                       THEN pod.containers[1].name ELSE ""
                      image == IF Len(pod.containers) > 0
                               THEN pod.containers[1].image ELSE EmptyStr
                  IN  NamesWalk(cluster, api, namespace, Tail(names),
                          IF pod.phase # "Running" THEN acc
                          ELSE Append(acc, [ Name |-> podName, Namespace |-> namespace,
                                  ComponentName |->
                                      extractComponentNameFromLabels(pod.labels, image),
                                  Image |-> image, ContainerName |-> containerName ]),
                          calls + 1)

discoverPodsFromNames(cluster, api, namespace, podNames) ==
    NamesWalk(cluster, api, namespace, podNames, <<>>, 0)

\* Snapshot.GetImages
GetImages(snap) == [ i \in 1..Len(snap) |-> snap[i].containerImage ]

\* discoverPodsFromSnapshot: only the image list of the snapshot is passed on
discoverPodsFromSnapshot(cluster, nsNames, api, snap, namespace) ==
    DiscoverPodsByImages(cluster, nsNames, api, GetImages(snap), namespace)

\* discoverPodsFromLabelSelector: the namespace check precedes the list call
discoverPodsFromLabelSelector(cluster, api, namespace, selector) ==
    IF namespace = EmptyStr
    THEN [err |-> "namespace required", pods |-> <<>>, calls |-> 0, listed |-> <<>>]
    ELSE DiscoverPodsByLabelSelector(cluster, api, namespace, selector)

(***************************************************************************)
(* The environment the commands run in: a pool of pods, the snapshots and  *)
(* the flag values given on the command line                               *)
(***************************************************************************)

NsTeam == <<"t","e","a","m">>
NsProd == <<"p","r","o","d">>
NsKubeSystem == <<"k","u","b","e","-","s","y","s","t","e","m">>
NsOpenshiftX == <<"o","p","e","n","s","h","i","f","t","-","x">>
NsDefault == <<"d","e","f","a","u","l","t">>
NsDefaultTeam == <<"d","e","f","a","u","l","t","-","t","e","a","m">>

\* the namespaces the API server lists
ClusterNamespaces == <<NsKubeSystem, NsTeam, NsDefault, NsProd, NsOpenshiftX, NsDefaultTeam>>

Frontend == <<"f","r","o","n","t","e","n","d">>
Backend == <<"b","a","c","k","e","n","d">>
Web == <<"w","e","b">>
Ui == <<"u","i">>
Repo == <<"q","/">>

ImgFrontendDigest == Repo \o Frontend \o <<"@","s",":","1">>
ImgFrontendV == Repo \o Frontend \o <<":","v">>
ImgFrontendW == Repo \o Frontend \o <<":","w">>
ImgBackendV == Repo \o Backend \o <<":","v">>
ImgBackendW == Repo \o Backend \o <<":","w">>

NoLabels == [k \in {} |-> EmptyStr]

PodPool ==
    << [name |-> "fe-1", ns |-> NsTeam, phase |-> "Running", labels |-> NoLabels,
        containers |-> <<[name |-> "main", image |-> ImgFrontendDigest]>>],
       [name |-> "be-1", ns |-> NsTeam, phase |-> "Running", labels |-> NoLabels,
        containers |-> <<[name |-> "main", image |-> ImgBackendW]>>],
       [name |-> "web-1", ns |-> NsTeam, phase |-> "Running", labels |-> ("app" :> Web),
        containers |-> <<[name |-> "main", image |-> ImgFrontendV]>>],
       [name |-> "fe-2", ns |-> NsProd, phase |-> "Running", labels |-> NoLabels,
        containers |-> <<[name |-> "main", image |-> ImgFrontendV],
                         [name |-> "side", image |-> ImgFrontendW]>>],
       [name |-> "be-2", ns |-> NsTeam, phase |-> "Pending", labels |-> NoLabels,
        containers |-> <<[name |-> "main", image |-> ImgBackendV]>>],
       [name |-> "sys-1", ns |-> NsKubeSystem, phase |-> "Running", labels |-> NoLabels,
        containers |-> <<[name |-> "main", image |-> ImgFrontendV]>>],
       \* a label may be present with the empty string as its value
       [name |-> "bare-1", ns |-> NsTeam, phase |-> "Running", labels |-> ("app" :> EmptyStr),
        containers |-> <<[name |-> "main", image |-> ImgBackendV]>>] >>

\* the largest number of pods in the cluster
MaxPods == 2

\* the clusters: the pods of the pool, in pool order, at most MaxPods of them
Clusters ==
    { SelectSeq(PodPool, LAMBDA p : p.name \in chosen) :
        chosen \in { c \in SUBSET {PodPool[i].name : i \in 1..Len(PodPool)} :
                       Cardinality(c) <= MaxPods } }

\* --snapshot / --snapshot-file
SnapshotPool ==
    { << [name |-> Frontend, containerImage |-> ImgFrontendDigest],
         [name |-> Backend, containerImage |-> ImgBackendV] >>,
      << [name |-> Ui, containerImage |-> ImgFrontendV] >> }

\* --images, --pods, --label-selector
ImagesArg == <<ImgFrontendV, ImgBackendV>>
PodNamesArg == <<"fe-1", "be-2", "web-1">>
SelectorArg == [key |-> "app", value |-> Web]

\* which calls of the Kubernetes API fail
ApiScenarios ==
    { [nsListFails |-> FALSE, podListFails |-> {}, getFails |-> {}],
      [nsListFails |-> TRUE, podListFails |-> {}, getFails |-> {}],
      [nsListFails |-> FALSE, podListFails |-> {NsTeam}, getFails |-> {}],
      [nsListFails |-> FALSE, podListFails |-> {}, getFails |-> {"fe-1"}] }

NoApiFailure == [nsListFails |-> FALSE, podListFails |-> {}, getFails |-> {}]


(***************************************************************************)
(* Paths, the manifest                                                     *)
(***************************************************************************)

\* filepath.Join on paths kept as sequences of segments: an empty element is
\* dropped.  Component names hold no "/" (a label value cannot, an image
\* basename is cut after the last one), so a name is one segment.
Join(dir, elem) == IF elem = EmptyStr THEN dir ELSE Append(dir, elem)

\* --output and --test-name
OutputDir == << <<"o","u","t">> >>
TestName == <<"t">>

\* fmt.Sprintf("%s-%s", testName, podInfo.ComponentName)
ComponentTestName(componentName) == TestName \o <<"-">> \o componentName

\* componentDir of collectFromPod
ComponentDir(podInfo) == Join(OutputDir, podInfo.ComponentName)

\* the ComponentInfo collectFromPod returns
ComponentInfoOf(podInfo) ==
    [ Name |-> podInfo.ComponentName, Image |-> podInfo.Image,
      CoverageDir |-> Join(Join(<<>>, podInfo.ComponentName),
                           ComponentTestName(podInfo.ComponentName)),
      Namespace |-> podInfo.Namespace, PodName |-> podInfo.Name,
      ContainerName |-> podInfo.ContainerName ]

\* NewCollectionManifest: no components
NewCollectionManifest == <<>>

\* a mutant of AddComponent that keeps only the newest component
AddComponent_replace(m, component) == <<component>>

\* CollectionManifest.AddComponent
AddComponent(m, component) == Append(m, component)

(***************************************************************************)
(* The state of one run of the CLI                                         *)
(***************************************************************************)

VARIABLES
    cmd,            \* "collect", "discover" or "process"
    flags,          \* the command line
    pc,             \* where the run is
    kubeClient,     \* setupKubeClient has returned a client
    apiCalls,       \* calls made against the Kubernetes API
    env,            \* what discovery saw: the cluster, the failing calls, the snapshot;
                    \* the error it returned, "" for none; the namespaces whose
                    \* pods it asked the API to list
    podsToCollect,  \* the discovered targets
    log,            \* one record per pass of the per-target loop
    successCount,
    failedComponents,
    manifest,       \* collect: the manifest being built; process: the one loaded
    saveCalls,      \* calls of CollectionManifest.Save
    saved,          \* metadata.json: whether it was written, and the components in it
    summary,        \* the summary of the run has been printed
    exitCode        \* -1 while running

cliVars == << cmd, flags, pc, kubeClient, apiCalls, env, podsToCollect, log,
              successCount, failedComponents, manifest, saveCalls, saved, summary,
              exitCode >>

NotSaved == [written |-> FALSE, components |-> <<>>]

\* CollectionManifest.Save wrote metadata.json
Saved(m) == [written |-> TRUE, components |-> m]
NoEnv == [cluster |-> <<>>, api |-> NoApiFailure, snap |-> <<>>, err |-> "", listed |-> <<>>]

CollectFlags ==
    { f \in [ url : BOOLEAN, snapshotJSON : BOOLEAN, snapshotFile : BOOLEAN,
              images : BOOLEAN, labelSelector : BOOLEAN, podNames : BOOLEAN,
              namespace : {EmptyStr, NsTeam}, push : BOOLEAN, repository : BOOLEAN,
              artifactRef : {FALSE}, coverageDir : {FALSE}, hasManifest : {FALSE} ] :
        f.repository => f.push }

\* discover registers neither --url nor the push flags
DiscoverFlags == { f \in CollectFlags : ~f.url /\ ~f.push }

ProcessFlags ==
    [ url : {FALSE}, snapshotJSON : {FALSE}, snapshotFile : {FALSE},
      images : {FALSE}, labelSelector : {FALSE}, podNames : {FALSE},
      namespace : {EmptyStr}, push : {FALSE}, repository : {FALSE},
      artifactRef : BOOLEAN, coverageDir : BOOLEAN, hasManifest : BOOLEAN ]

B2N(b) == IF b THEN 1 ELSE 0

\* a mutant of the validation of runCollect that does not count --images
discoveryMethods_noimages(f) ==
    B2N(f.url) + B2N(f.snapshotJSON) + B2N(f.snapshotFile)
        + B2N(f.labelSelector) + B2N(f.podNames)

\* discoveryMethods of runCollect and of runDiscover (which has no --url)
discoveryMethods(f) ==
    B2N(f.url) + B2N(f.snapshotJSON) + B2N(f.snapshotFile) + B2N(f.images)
        + B2N(f.labelSelector) + B2N(f.podNames)

CliInit ==
    /\ cmd \in {"collect", "discover", "process"}
    /\ flags \in CASE cmd = "collect" -> CollectFlags
                   [] cmd = "discover" -> DiscoverFlags
                   [] OTHER -> ProcessFlags
    /\ pc = "start"
    /\ kubeClient = FALSE
    /\ apiCalls = 0
    /\ env = NoEnv
    /\ podsToCollect = <<>>
    /\ log = <<>>
    /\ successCount = 0
    /\ failedComponents = <<>>
    /\ manifest = <<>>
    /\ saveCalls = 0
    /\ saved = NotSaved
    /\ summary = FALSE
    /\ exitCode = -1

\* exitWithError, and the return of the command's Run function (code 0)
Exit(code) == pc' = "exited" /\ exitCode' = code

\* runCollect up to the choice between the URL and the Kubernetes path
ValidateCollect ==
    /\ pc = "start" /\ cmd = "collect"
    /\ IF discoveryMethods(flags) = 0 \/ discoveryMethods(flags) > 1 THEN Exit(1)
       ELSE IF flags.push /\ ~flags.repository THEN Exit(1)
       ELSE IF flags.podNames /\ flags.namespace = EmptyStr THEN Exit(1)
       ELSE IF flags.url THEN pc' = "url" /\ UNCHANGED exitCode
       ELSE pc' = "setup" /\ UNCHANGED exitCode
    /\ UNCHANGED << cmd, flags, kubeClient, apiCalls, env, podsToCollect, log,
                    successCount, failedComponents, manifest, saveCalls, saved, summary >>

\* runDiscover up to setupKubeClient
ValidateDiscover ==
    /\ pc = "start" /\ cmd = "discover"
    /\ IF discoveryMethods(flags) = 0 \/ discoveryMethods(flags) > 1 THEN Exit(1)
       ELSE pc' = "setup" /\ UNCHANGED exitCode
    /\ UNCHANGED << cmd, flags, kubeClient, apiCalls, env, podsToCollect, log,
                    successCount, failedComponents, manifest, saveCalls, saved, summary >>

\* setupKubeClient: the configuration is loaded from disk; a failure exits
SetupKubeClient ==
    /\ pc = "setup"
    /\ \E ok \in BOOLEAN :
         IF ok THEN kubeClient' = TRUE /\ pc' = "discover" /\ UNCHANGED exitCode
         ELSE Exit(1) /\ UNCHANGED kubeClient
    /\ UNCHANGED << cmd, flags, apiCalls, env, podsToCollect, log, successCount,
                    failedComponents, manifest, saveCalls, saved, summary >>

\* the discovery both commands run, by the flag that is set
Discovery(f, cluster, api, snap, parseOk) ==
    IF f.snapshotJSON \/ f.snapshotFile
    THEN IF ~parseOk THEN [err |-> "parse snapshot", pods |-> <<>>, calls |-> 0,
                               listed |-> <<>>]
         ELSE discoverPodsFromSnapshot(cluster, ClusterNamespaces, api, snap, f.namespace)
    ELSE IF f.images
    THEN DiscoverPodsByImages(cluster, ClusterNamespaces, api, ImagesArg, f.namespace)
    ELSE IF f.labelSelector
    THEN discoverPodsFromLabelSelector(cluster, api, f.namespace, SelectorArg)
    ELSE IF f.podNames
    THEN discoverPodsFromNames(cluster, api, f.namespace, PodNamesArg)
    ELSE [err |-> "", pods |-> <<>>, calls |-> 0, listed |-> <<>>]

\* runCollect and runDiscover from the discovery to the start of the loop
Discover ==
    /\ pc = "discover"
    /\ \E cluster \in Clusters, api \in ApiScenarios :
       \E snap \in (IF flags.snapshotJSON \/ flags.snapshotFile
                    THEN SnapshotPool ELSE {<<>>}) :
       \E parseOk \in (IF flags.snapshotJSON \/ flags.snapshotFile
                       THEN BOOLEAN ELSE {TRUE}) :
         LET r == Discovery(flags, cluster, api, snap, parseOk)
         IN  /\ env' = [cluster |-> cluster, api |-> api, snap |-> snap, err |-> r.err,
                         listed |-> r.listed]
             /\ apiCalls' = apiCalls + r.calls
             /\ IF r.err # "" THEN Exit(1) /\ UNCHANGED << podsToCollect, manifest >>
                ELSE IF r.pods = <<>>
                THEN Exit(IF cmd = "collect" THEN 1 ELSE 0)
                     /\ UNCHANGED << podsToCollect, manifest >>
                ELSE /\ podsToCollect' = r.pods
                     /\ IF cmd = "collect"
                        THEN /\ manifest' = NewCollectionManifest
                             /\ pc' = "loop" /\ UNCHANGED exitCode
                        ELSE Exit(0) /\ UNCHANGED manifest
    /\ UNCHANGED << cmd, flags, kubeClient, log, successCount, failedComponents,
                    saveCalls, saved, summary >>

\* where collectFromPod can fail: creating the component directory, creating
\* the coverage client, collecting the coverage
CollectOutcomes == {"mkdir", "client", "collect", "ok"}

\* the reports of a collected target: not asked for (auto-process off or
\* --skip-generate), GenerateCoverageReport or FilterCoverageReport failed
\* (a warning), or made
ConvertOutcomes == {"skipped", "failed", "ok"}

\* the steps collectFromPod has run when it returns: the directory, the
\* client, the collection (connect, collect and persist, inside the client
\* library), the reports
CollectSteps(outcome, convert) ==
    LET upTo == CASE outcome = "mkdir" -> 1 [] outcome = "client" -> 2
                  [] outcome = "collect" -> 3 [] OTHER -> IF convert = "skipped" THEN 3 ELSE 4
    IN  SubSeq(<< "mkdir", "client", "collect", "convert" >>, 1, upTo)

\* one pass of the loop of runCollect: collectFromPod for the next target
CollectFromPod ==
    /\ pc = "loop" /\ cmd = "collect"
    /\ Len(log) < Len(podsToCollect)
    /\ \E outcome \in CollectOutcomes, convert \in ConvertOutcomes \cup {"none"} :
         LET i == Len(log) + 1
             podInfo == podsToCollect[i]
             componentInfo == ComponentInfoOf(podInfo)
         IN  /\ (convert = "none") <=> (outcome # "ok")
             /\ log' = Append(log,
                    [ target |-> i, outcome |-> outcome,
                      \* the steps run, in their order, and how the reports went
                      steps |-> CollectSteps(outcome, convert),
                      convert |-> convert,
                      \* the directory made for the target, <<>> when MkdirAll failed
                      dir |-> IF outcome = "mkdir" THEN <<>> ELSE ComponentDir(podInfo),
                      \* where the client has put the target's artifacts
                      artifacts |-> IF outcome = "ok"
                                    THEN Join(ComponentDir(podInfo),
                                              ComponentTestName(podInfo.ComponentName))
                                    ELSE <<>> ])
             /\ IF outcome = "ok"
                THEN /\ successCount' = successCount + 1
                     /\ manifest' = AddComponent(manifest, componentInfo)
                ELSE UNCHANGED << successCount, manifest >>
    /\ UNCHANGED << cmd, flags, pc, kubeClient, apiCalls, env, podsToCollect,
                    failedComponents, saveCalls, saved, summary, exitCode >>

\* a mutant of the end of runCollect that fails the run on any failed target
CollectFailed_any == successCount < Len(podsToCollect)

\* a mutant of the end of runCollect that never fails the run
CollectFailed_never == FALSE

\* the test that ends runCollect with an error after the loop
CollectFailed == successCount = 0

\* runCollect after the loop: the exit on zero successes, the summary line,
\* the manifest, the push
FinishCollect ==
    /\ pc = "loop" /\ cmd = "collect"
    /\ Len(log) = Len(podsToCollect)
    /\ IF CollectFailed
       THEN Exit(1) /\ UNCHANGED << summary, saveCalls, saved >>
       ELSE /\ summary' = TRUE
            /\ saveCalls' = saveCalls + 1
            /\ \E saveOk \in BOOLEAN : saved' = IF saveOk THEN Saved(manifest) ELSE saved
            /\ Exit(0)
    /\ UNCHANGED << cmd, flags, kubeClient, apiCalls, env, podsToCollect, log,
                    successCount, failedComponents, manifest >>

\* collectFromURL: one direct target, any failure exits
CollectFromURL ==
    /\ pc = "url"
    /\ \E outcome \in {"client", "collect", "ok"} :
         IF outcome # "ok"
         THEN Exit(1) /\ UNCHANGED << manifest, saveCalls, saved >>
         ELSE /\ manifest' = AddComponent(NewCollectionManifest,
                    [ Name |-> <<"d","i","r","e","c","t","-","u","r","l">>,
                      Image |-> <<"u","r","l">>, CoverageDir |-> <<TestName>>,
                      Namespace |-> EmptyStr, PodName |-> "", ContainerName |-> "" ])
              /\ saveCalls' = saveCalls + 1
              /\ \E saveOk \in BOOLEAN : saved' = IF saveOk THEN Saved(manifest') ELSE saved
              /\ Exit(0)
    /\ UNCHANGED << cmd, flags, kubeClient, apiCalls, env, podsToCollect, log,
                    successCount, failedComponents, summary >>


(***************************************************************************)
(* process: the manifest-driven run                                        *)
(***************************************************************************)

\* the largest number of components in a loaded manifest
MaxComponents == 3

ComponentPool ==
    { ComponentInfoOf([ Name |-> "fe-1", Namespace |-> NsTeam, ComponentName |-> Frontend,
                        Image |-> ImgFrontendDigest, ContainerName |-> "main" ]),
      ComponentInfoOf([ Name |-> "be-1", Namespace |-> NsTeam, ComponentName |-> Backend,
                        Image |-> ImgBackendV, ContainerName |-> "main" ]) }

\* the manifests metadata.json can hold
ManifestPool ==
    UNION { [1..n -> ComponentPool] : n \in 0..MaxComponents }

\* runProcess up to the choice between the manifest and the legacy workflow
ProcessStart ==
    /\ pc = "start" /\ cmd = "process"
    /\ IF ~flags.artifactRef /\ ~flags.coverageDir THEN Exit(1)
       ELSE IF flags.artifactRef /\ flags.coverageDir THEN Exit(1)
       ELSE IF flags.coverageDir /\ flags.hasManifest
       THEN pc' = "load" /\ UNCHANGED exitCode
       ELSE pc' = "legacy" /\ UNCHANGED exitCode
    /\ UNCHANGED << cmd, flags, kubeClient, apiCalls, env, podsToCollect, log,
                    successCount, failedComponents, manifest, saveCalls, saved, summary >>

\* processFromManifest up to its loop: manifest.Load and the empty manifest
ProcessLoad ==
    /\ pc = "load"
    /\ \E loadOk \in BOOLEAN, m \in ManifestPool :
         IF ~loadOk THEN Exit(1) /\ UNCHANGED manifest
         ELSE /\ manifest' = m
              /\ IF Len(m) = 0 THEN Exit(1) ELSE pc' = "ploop" /\ UNCHANGED exitCode
    /\ UNCHANGED << cmd, flags, kubeClient, apiCalls, env, podsToCollect, log,
                    successCount, failedComponents, saveCalls, saved, summary >>

\* where one component's processing ends: the workspace cannot be made, the
\* git metadata cannot be extracted, the clone fails, the conversion fails,
\* only the upload fails, nothing fails
ProcessOutcomes == {"workspace", "metadata", "clone", "coverage", "upload", "ok"}

\* a mutant of processComponent that returns the upload's error
ComponentFailed_upload(outcome) == outcome # "ok"

\* processComponent returns an error (or the workspace could not be made)
ComponentFailed(outcome) == outcome \notin {"upload", "ok"}

\* one pass of the loop of processFromManifest
ProcessComponent ==
    /\ pc = "ploop"
    /\ Len(log) < Len(manifest)
    /\ \E outcome \in ProcessOutcomes :
         LET i == Len(log) + 1
             component == manifest[i]
         IN  /\ log' = Append(log, [ target |-> i, outcome |-> outcome,
                                     dir |-> <<>>, artifacts |-> <<>> ])
             /\ IF ComponentFailed(outcome)
                THEN /\ failedComponents' = Append(failedComponents, component.Name)
                     /\ UNCHANGED successCount
                ELSE /\ successCount' = successCount + 1
                     /\ UNCHANGED failedComponents
    /\ UNCHANGED << cmd, flags, pc, kubeClient, apiCalls, env, podsToCollect,
                    manifest, saveCalls, saved, summary, exitCode >>

\* a mutant of the end of processFromManifest that fails the run on any
\* failed component
ProcessFailed_any == failedComponents # <<>>

\* the test that ends processFromManifest with an error after the summary
ProcessFailed == successCount = 0

\* processFromManifest after the loop: the summary, then the exit code
ProcessFinish ==
    /\ pc = "ploop"
    /\ Len(log) = Len(manifest)
    /\ summary' = TRUE
    /\ Exit(IF ProcessFailed THEN 1 ELSE 0)
    /\ UNCHANGED << cmd, flags, kubeClient, apiCalls, env, podsToCollect, log,
                    successCount, failedComponents, manifest, saveCalls, saved >>


(***************************************************************************)
(* clients/nodejs/coverage_client.js: collect and reset attempts against   *)
(* one pod, each through a tunnel of its own                               *)
(***************************************************************************)

VARIABLES
    attempt,        \* the number of the current attempt, 0 before the first
    kind,           \* "collectKubectl", "collectNative", "resetKubectl", "resetNative"
    cpc,            \* where the attempt's continuation is
    probes,         \* liveness probes issued by the attempt
    probeOk,        \* a probe of the attempt was answered with 200
    settledFlag,    \* the closure's "settled"
    promise,        \* "pending", "fulfilled" or "rejected"
    result,         \* what the attempt delivered to its caller
    settleCalls,    \* calls of resolve or reject in the attempt
    tunnels,        \* one record per tunnel opened: its owner and its state
    errorFired,     \* the port-forward process has emitted "error"
    reqLog,         \* the HTTP requests sent: attempt, tunnel, path
    fileWritten,    \* the attempt wrote its coverage file
    rejectedAt      \* requests and files of the attempt when it was rejected

clientVars == << attempt, kind, cpc, probes, probeOk, settledFlag, promise, result,
                 settleCalls, tunnels, errorFired, reqLog, fileWritten, rejectedAt >>

\* the most attempts one run of the model makes
MaxAttempts == 2

\* for (let i = 0; i < 5; i++)
MaxProbes == 5

Kinds == {"collectKubectl", "collectNative", "resetKubectl", "resetNative"}

NoResult == "none"
NotRejected == [reqs |-> -1, file |-> FALSE]

ClientInit ==
    /\ attempt = 0
    /\ kind = "none"
    /\ cpc = "done"
    /\ probes = 0
    /\ probeOk = FALSE
    /\ settledFlag = FALSE
    /\ promise = "pending"
    /\ result = NoResult
    /\ settleCalls = 0
    /\ tunnels = <<>>
    /\ errorFired = FALSE
    /\ reqLog = <<>>
    /\ fileWritten = FALSE
    /\ rejectedAt = NotRejected

\* the tunnel of the current attempt, 0 when it has opened none
MyTunnel ==
    IF \E t \in 1..Len(tunnels) : tunnels[t].owner = attempt
    THEN CHOOSE t \in 1..Len(tunnels) : tunnels[t].owner = attempt
    ELSE 0

\* a mutant of cleanup that leaves the port-forward process running
Closed_leak(ts, t) == ts

\* cleanup() of the kubectl variants (pfProcess.kill) and server.close() of
\* the native ones: tunnel t is closed
Closed(ts, t) == IF t = 0 THEN ts ELSE [ts EXCEPT ![t].state = "closed"]

\* resolve(v) / reject(e): only the first call settles the promise
Settle(state, v) ==
    /\ settleCalls' = settleCalls + 1
    /\ IF promise = "pending"
       THEN promise' = state /\ result' = v
       ELSE UNCHANGED << promise, result >>

Request(path) == [attempt |-> attempt, tunnel |-> MyTunnel, path |-> path]

\* collectCoverageFromPod / resetCoverage: a new attempt.  The kubectl
\* variants spawn the port-forward process; the native ones import the
\* Kubernetes client and call portForward, either of which may throw, and
\* then the attempt returns null (collect) or false (reset) with no tunnel.
StartAttempt ==
    /\ attempt = 0 \/ (cpc = "done" /\ promise # "pending")
    /\ attempt < MaxAttempts
    /\ attempt' = attempt + 1
    /\ \E k \in Kinds, opened \in BOOLEAN :
         /\ kind' = k
         /\ IF k \in {"collectKubectl", "resetKubectl"} \/ opened
            THEN /\ tunnels' = Append(tunnels, [owner |-> attempt + 1, state |-> "open"])
                 /\ cpc' = "sleep"
                 /\ promise' = "pending" /\ result' = NoResult
            ELSE /\ UNCHANGED tunnels
                 /\ cpc' = "done"
                 /\ promise' = "fulfilled"
                 /\ result' = IF k = "collectNative" THEN "null" ELSE "false"
    /\ probes' = 0 /\ probeOk' = FALSE /\ settledFlag' = FALSE /\ settleCalls' = 0
    /\ errorFired' = FALSE /\ fileWritten' = FALSE /\ rejectedAt' = NotRejected
    /\ UNCHANGED reqLog

\* pfProcess.on('error'): at any time while the attempt's closure is alive
PfError ==
    /\ kind \in {"collectKubectl", "resetKubectl"}
    /\ attempt > 0 /\ ~errorFired
    /\ errorFired' = TRUE
    /\ IF ~settledFlag
       THEN /\ settledFlag' = TRUE
            /\ tunnels' = Closed(tunnels, MyTunnel)
            /\ IF kind = "collectKubectl"
               THEN /\ Settle("rejected", "error")
                    /\ rejectedAt' =
                         [reqs |-> Cardinality({i \in 1..Len(reqLog) :
                                     reqLog[i].attempt = attempt /\ reqLog[i].path = "/coverage"}),
                          file |-> fileWritten]
               ELSE Settle("fulfilled", "false") /\ UNCHANGED rejectedAt
       ELSE UNCHANGED << settledFlag, tunnels, promise, result, settleCalls, rejectedAt >>
    /\ UNCHANGED << attempt, kind, cpc, probes, probeOk, reqLog, fileWritten >>

\* sleep(2000) / sleep(1000) is over
AfterSleep ==
    /\ cpc = "sleep"
    /\ cpc' = IF kind = "collectKubectl" THEN "probe"
              ELSE IF kind = "collectNative" THEN "fetch" ELSE "reset"
    /\ UNCHANGED << attempt, kind, probes, probeOk, settledFlag, promise, result,
                    settleCalls, tunnels, errorFired, reqLog, fileWritten, rejectedAt >>

\* the probe loop of _collectWithKubectl is left: a probe answered 200, or
\* five probes were made
ProbeLoopDone(n, ok) == ok \/ n >= MaxProbes

\* one pass of the probe loop: a 200 breaks out of it, another status goes
\* on at once, a thrown error goes on after a second
Probe ==
    /\ cpc = "probe" /\ ~ProbeLoopDone(probes, probeOk)
    /\ \E answer \in {"200", "other", "throw"} :
         /\ probes' = probes + 1
         /\ probeOk' = (answer = "200")
         /\ reqLog' = Append(reqLog, Request("/health"))
    /\ UNCHANGED << attempt, kind, cpc, settledFlag, promise, result, settleCalls,
                    tunnels, errorFired, fileWritten, rejectedAt >>

\* after the loop _fetchCoverageData is called, whatever the probes said
ProbeLoopExit ==
    /\ cpc = "probe" /\ ProbeLoopDone(probes, probeOk)
    /\ cpc' = "fetch"
    /\ UNCHANGED << attempt, kind, probes, probeOk, settledFlag, promise, result,
                    settleCalls, tunnels, errorFired, reqLog, fileWritten, rejectedAt >>

\* _fetchCoverageData up to the request: mkdir, which may throw, then the GET
FetchRequest ==
    /\ cpc = "fetch"
    /\ \E mkdirOk \in BOOLEAN :
         IF mkdirOk
         THEN reqLog' = Append(reqLog, Request("/coverage")) /\ cpc' = "fetching"
         ELSE UNCHANGED reqLog /\ cpc' = "fetchedNull"
    /\ UNCHANGED << attempt, kind, probes, probeOk, settledFlag, promise, result,
                    settleCalls, tunnels, errorFired, fileWritten, rejectedAt >>

\* _fetchCoverageData from the response on: a thrown error, a status other
\* than 200, a body without coverage_data, a payload that does not parse and
\* a failed write give null; else the file is written and its path returned
FetchResponse ==
    /\ cpc = "fetching"
    /\ \E answer \in {"throw", "other", "nodata", "badjson", "writefails", "ok"} :
         IF answer = "ok"
         THEN fileWritten' = TRUE /\ cpc' = "fetchedFile"
         ELSE UNCHANGED fileWritten /\ cpc' = "fetchedNull"
    /\ UNCHANGED << attempt, kind, probes, probeOk, settledFlag, promise, result,
                    settleCalls, tunnels, errorFired, reqLog, rejectedAt >>

\* the caller of _fetchCoverageData goes on: the kubectl variant sets
\* settled, cleans up and resolves; the native one closes the server in its
\* finally block and returns
FetchReturn ==
    /\ cpc \in {"fetchedNull", "fetchedFile"}
    /\ tunnels' = Closed(tunnels, MyTunnel)
    /\ settledFlag' = IF kind = "collectKubectl" THEN TRUE ELSE settledFlag
    /\ Settle("fulfilled", IF cpc = "fetchedFile" THEN "file" ELSE "null")
    /\ cpc' = "done"
    /\ UNCHANGED << attempt, kind, probes, probeOk, errorFired, reqLog, fileWritten,
                    rejectedAt >>

\* _resetWithKubectl / _resetWithNativePortForward: the GET of /coverage/reset
\* and what follows it.  A thrown error reaches the catch handler, which in
\* the kubectl variant cleans up and resolves only if nothing settled before.
Reset ==
    /\ cpc = "reset"
    /\ reqLog' = Append(reqLog, Request("/coverage/reset"))
    /\ \E answer \in {"200", "other", "throw"} :
         IF kind = "resetKubectl" /\ answer = "throw" /\ settledFlag
         THEN UNCHANGED << settledFlag, tunnels, promise, result, settleCalls >>
         ELSE /\ settledFlag' = IF kind = "resetKubectl" THEN TRUE ELSE settledFlag
              /\ tunnels' = Closed(tunnels, MyTunnel)
              /\ Settle("fulfilled", IF answer = "200" THEN "true" ELSE "false")
    /\ cpc' = "done"
    /\ UNCHANGED << attempt, kind, probes, probeOk, errorFired, fileWritten, rejectedAt >>


(***************************************************************************)
(* instrumentation/nodejs/coverage_server.js: the profiler behind the      *)
(* inspector session, and the /coverage and /coverage/reset handlers.      *)
(* session.post(method, callback) hands the command to the inspector; the  *)
(* callback runs when the inspector has answered it.  The handlers do not  *)
(* wait for their callbacks, so an answer may come at once or after other  *)
(* requests were handled: commands are answered in the order posted.       *)
(***************************************************************************)

VARIABLES
    profiler,       \* "started" or "stopped": precise coverage is being collected
    counts,         \* hits the profiler holds, by the epoch they were made in
    epoch,          \* the number of /coverage/reset requests answered so far
    inspQ,          \* commands posted to the inspector and not yet answered
    responses,      \* the answers given to /coverage requests
    dumpsSent       \* /coverage requests received

serverVars == << profiler, counts, epoch, inspQ, responses, dumpsSent >>

\* the most hits the application makes, the most resets and the most
\* /coverage requests one run of the model sees
MaxHits == 2
MaxResets == 2
MaxDumps == 2

ZeroCounts == [e \in 0..MaxResets |-> 0]

\* runAppWithCoverage has started precise coverage before the application runs
ServerInit ==
    /\ profiler = "started"
    /\ counts = ZeroCounts
    /\ epoch = 0
    /\ inspQ = <<>>
    /\ responses = <<>>
    /\ dumpsSent = 0

RECURSIVE SumTo(_, _)
SumTo(f, n) == IF n < 0 THEN 0 ELSE f[n] + SumTo(f, n - 1)

\* the application runs instrumented code: counted while coverage is started
AppHit ==
    /\ SumTo(counts, MaxResets) < MaxHits
    /\ profiler = "started"
    /\ counts' = [counts EXCEPT ![epoch] = @ + 1]
    /\ UNCHANGED << profiler, epoch, inspQ, responses, dumpsSent >>

\* handleCoverageReset posts Profiler.stopPreciseCoverage
ResetPosts(q) == Append(q, [method |-> "stop", epoch |-> 0])

\* handleCoverageReset: posts the stop and answers 200 without waiting for it
HandleCoverageReset ==
    /\ epoch < MaxResets
    /\ inspQ' = ResetPosts(inspQ)
    /\ epoch' = epoch + 1
    /\ UNCHANGED << profiler, counts, responses, dumpsSent >>

\* handleCoverageDump: posts Profiler.takePreciseCoverage; the request is
\* answered from the callback
HandleCoverageDump ==
    /\ dumpsSent < MaxDumps
    /\ dumpsSent' = dumpsSent + 1
    /\ inspQ' = Append(inspQ, [method |-> "take", epoch |-> epoch])
    /\ UNCHANGED << profiler, counts, epoch, responses >>

\* the inspector answers the oldest command and its callback runs:
\*   stop  - the counters are released; the callback posts the start
\*   start - counting begins again
\*   take  - an error while coverage is stopped (the request fails), else the
\*           counters are reported and cleared
InspectorAnswer ==
    /\ inspQ # <<>>
    /\ LET c == Head(inspQ)
       IN  CASE c.method = "stop" ->
                  /\ profiler' = "stopped"
                  /\ counts' = ZeroCounts
                  /\ inspQ' = Append(Tail(inspQ), [method |-> "start", epoch |-> 0])
                  /\ UNCHANGED responses
             [] c.method = "start" ->
                  /\ profiler' = "started"
                  /\ inspQ' = Tail(inspQ)
                  /\ UNCHANGED << counts, responses >>
             [] OTHER ->
                  /\ inspQ' = Tail(inspQ)
                  /\ IF profiler = "stopped"
                     THEN /\ responses' = Append(responses,
                                 [epoch |-> c.epoch, status |-> 500, stale |-> 0, hits |-> 0])
                          /\ UNCHANGED counts
                     ELSE /\ responses' = Append(responses,
                                 [epoch |-> c.epoch, status |-> 200,
                                  stale |-> SumTo(counts, c.epoch - 1),
                                  hits |-> SumTo(counts, MaxResets)])
                          /\ counts' = ZeroCounts
                  /\ UNCHANGED profiler
    /\ UNCHANGED << epoch, dumpsSent >>


(***************************************************************************)
(* normalizeImageRef applied to image references, once and once more       *)
(***************************************************************************)

VARIABLES
    imgIn,          \* the reference, by its parts: repository, tag, digest
    imgOut          \* what normalizeImageRef returned: for imgIn, then for that result

imageVars == << imgIn, imgOut >>

\* repositories: with a registry host, with a registry host and port, bare,
\* with a nested path
ImageRepos ==
    { <<"q","/","a">>, <<"h",":","5","/","a">>, <<"a">>, <<"q","/","o","/","a">>,
      <<"h",":","5","/","o","/","b">>, <<"h",":","5","/","b">> }

\* tags (with their ":"), none being the empty string
ImageTags == { EmptyStr, <<":","v">>, <<":","1",".","2">> }

\* digests (with their "@"), none being the empty string
ImageDigests == { EmptyStr, <<"@","s",":","1">> }

\* the text of the reference: repository[:tag][@digest]
ImageText(parts) == parts.repo \o parts.tag \o parts.digest

ImageInit ==
    /\ imgIn \in [repo : ImageRepos, tag : ImageTags, digest : ImageDigests]
    /\ imgOut = <<>>

ImageIdle ==
    /\ imgIn = [repo |-> EmptyStr, tag |-> EmptyStr, digest |-> EmptyStr]
    /\ imgOut = <<>>

\* normalizeImageRef is called on the reference, then on its own result
Normalize ==
    /\ Len(imgOut) < 2
    /\ imgOut' = Append(imgOut, normalizeImageRef(IF imgOut = <<>> THEN ImageText(imgIn)
                                                  ELSE imgOut[Len(imgOut)]))
    /\ UNCHANGED imgIn


(***************************************************************************)
(* clients/nodejs/coverage_client.js: reconciling the paths of a coverage  *)
(* payload with the local source tree.  Paths are sequences of characters. *)
(***************************************************************************)

\* String.prototype.includes(sub) / strings.Contains(s, sub)
Includes(s, sub) ==
    \E i \in 0..(Len(s) - Len(sub)) : SubSeq(s, i + 1, i + Len(sub)) = sub

\* String.prototype.endsWith(x) / strings.HasSuffix(s, x)
HasSuffix(s, x) == Len(x) <= Len(s) /\ SubSeq(s, Len(s) - Len(x) + 1, Len(s)) = x

\* s.split(sep) for a one-character sep
RECURSIVE Split(_, _)
Split(s, sep) ==
    IF Index(s, sep) = 0 THEN << s >>
    ELSE << Before(s, Index(s, sep)) >> \o Split(From(s, Index(s, sep) + 1), sep)

\* parts.join(sep)
RECURSIVE JoinParts(_, _)
JoinParts(parts, sep) ==
    IF parts = <<>> THEN EmptyStr
    ELSE IF Len(parts) = 1 THEN parts[1]
    ELSE parts[1] \o << sep >> \o JoinParts(Tail(parts), sep)

\* the characters of the paths, in the order of their code units
CharOrder ==
    << "*", ".", "/", "_", "a", "b", "c", "d", "e", "f", "g", "i", "j", "l", "m",
       "n", "o", "p", "r", "s", "t", "u", "v", "w" >>

CharCode(c) == CHOOSE i \in 1..Len(CharOrder) : CharOrder[i] = c

\* a < b in the order Array.prototype.sort() gives strings
RECURSIVE StrLess(_, _)
StrLess(a, b) ==
    IF b = <<>> THEN FALSE
    ELSE IF a = <<>> THEN TRUE
    ELSE IF Head(a) = Head(b) THEN StrLess(Tail(a), Tail(b))
    ELSE CharCode(Head(a)) < CharCode(Head(b))

\* filePath.split('/').filter(p => p)
PathParts(p) == SelectSeq(Split(p, "/"), LAMBDA x : x # EmptyStr)

\* array.slice(0, -n) for n > 0
DropLast(parts, n) == SubSeq(parts, 1, Len(parts) - n)

\* every path exists
existsSync_always(fs, p) == TRUE

\* existsSync(p) on a file system given by its files: a file or a directory
existsSync(fs, p) ==
    \E i \in 1..Len(fs) : fs[i] = p \/ HasPrefix(fs[i], p \o << "/" >>)

\* the keys as given, in insertion order (the sort left out)
measuredFiles_unsorted(coverageData) == coverageData

\* Object.keys(coverageData).sort()
measuredFiles(coverageData) == SortSeq(coverageData, StrLess)

\* the files that do not exist locally
containerFiles(fs, coverageData) ==
    SelectSeq(measuredFiles(coverageData), LAMBDA p : ~existsSync(fs, p))

\* collectLocalFiles: the .js and .mjs files under sourceDir, in the order
\* the directory walk meets them, skipping node_modules and dot entries;
\* each with its path relative to sourceDir, by parts
Skipped(entry) == entry = <<"n","o","d","e","_","m","o","d","u","l","e","s">>
                  \/ HasPrefix(entry, << "." >>)

RelParts(sourceDir, fullPath) == PathParts(From(fullPath, Len(sourceDir) + 1))

collectLocalFiles(fs, sourceDir) ==
    SelectSeq(fs, LAMBDA f :
        /\ HasPrefix(f, sourceDir \o << "/" >>)
        /\ \A i \in 1..Len(RelParts(sourceDir, f)) : ~Skipped(RelParts(sourceDir, f)[i])
        /\ \/ HasSuffix(f, <<".","j","s">>)
           \/ HasSuffix(f, <<".","m","j","s">>))

\* the number of matching suffix parts, from the file name backwards
matchScore(containerParts, localParts) ==
    LET m == IF Len(containerParts) < Len(localParts)
             THEN Len(containerParts) ELSE Len(localParts)
        agree(k) == \A i \in 1..k :
                        containerParts[Len(containerParts) - i + 1]
                            = localParts[Len(localParts) - i + 1]
    IN  CHOOSE k \in 0..m : agree(k) /\ (k < m => ~agree(k + 1))

\* the score of a local file against a container file: 0 unless the file
\* names are the same
ScoreOf(sourceDir, containerFile, localFile) ==
    matchScore(PathParts(containerFile), RelParts(sourceDir, localFile))

\* bestMatch of a container file: the first local file with the highest score,
\* <<>> when no local file has its name
bestMatch(locals, sourceDir, containerFile) ==
    LET score(i) == ScoreOf(sourceDir, containerFile, locals[i])
        cands == { i \in 1..Len(locals) : score(i) > 0 }
    IN  IF cands = {} THEN <<>>
        ELSE LET i == CHOOSE c \in cands :
                          \A d \in cands : score(d) < score(c)
                                           \/ (score(d) = score(c) /\ c <= d)
             IN  << [containerFile |-> containerFile, localFile |-> locals[i],
                     matchScore |-> score(i)] >>

\* the container root of a match: what is left of the container file when
\* the matched suffix is removed, "" when nothing is left
containerRootOf(match) ==
    LET rootParts == DropLast(PathParts(match.containerFile), match.matchScore)
    IN  IF rootParts = <<>> THEN EmptyStr
        ELSE << "/" >> \o JoinParts(rootParts, "/") \o << "/" >>

\* the matches that have a container root, in the order of the container files
RECURSIVE potentialMatches(_, _, _)
potentialMatches(locals, sourceDir, files) ==
    IF files = <<>> THEN <<>>
    ELSE LET b == bestMatch(locals, sourceDir, Head(files))
         IN  (IF b # <<>> /\ containerRootOf(b[1]) # EmptyStr THEN b ELSE <<>>)
             \o potentialMatches(locals, sourceDir, Tail(files))

\* the local root of a match: the local file without the matched suffix,
\* starting and ending with the separator
localRootOf(match) ==
    LET localRootParts == DropLast(Split(match.localFile, "/"), match.matchScore)
        joined == JoinParts(localRootParts, "/")
        lead == IF HasPrefix(joined, << "/" >>) THEN joined ELSE << "/" >> \o joined
    IN  IF HasSuffix(lead, << "/" >>) THEN lead ELSE lead \o << "/" >>

\* the mapping chosen from the matches: the root with the most matches, the
\* least by name among equals; its local root comes from its first match
ChooseMapping(matches) ==
    LET roots == { containerRootOf(matches[i]) : i \in 1..Len(matches) }
        count(r) == Cardinality({ i \in 1..Len(matches) : containerRootOf(matches[i]) = r })
        bestRoot == CHOOSE r \in roots :
                        \A q \in roots \ {r} :
                            count(q) < count(r) \/ (count(q) = count(r) /\ StrLess(r, q))
        firstMatch == matches[CHOOSE i \in 1..Len(matches) :
                                  /\ containerRootOf(matches[i]) = bestRoot
                                  /\ \A j \in 1..(i - 1) : containerRootOf(matches[j]) # bestRoot]
    IN  IF matches = <<>> THEN <<>>
        ELSE IF DropLast(Split(firstMatch.localFile, "/"), firstMatch.matchScore) = <<>>
        THEN <<>>
        ELSE << [containerPrefix |-> bestRoot, localPrefix |-> localRootOf(firstMatch)] >>

\* _detectContainerPaths(coverageData, sourceDir): the mappings as the
\* entries of the returned object, none or one
detectContainerPaths(fs, coverageData, sourceDir) ==
    IF containerFiles(fs, coverageData) = <<>> THEN <<>>
    ELSE ChooseMapping(potentialMatches(collectLocalFiles(fs, sourceDir), sourceDir,
                                        containerFiles(fs, coverageData)))

\* the substrings of the paths _remapCoveragePaths leaves out
InstrumentationPaths ==
    << <<"c","o","v","e","r","a","g","e","_","s","e","r","v","e","r">>,
       <<"n","o","d","e","_","m","o","d","u","l","e","s">>,
       <<"/","s","e","r","v","e","r","/">>,
       <<"/","c","l","i","e","n","t","/">>,
       <<"/","t","e","s","t","/">> >>

\* no path is left out
IsInstrumentation_none(filePath) == FALSE

IsInstrumentation(filePath) ==
    \E i \in 1..Len(InstrumentationPaths) : Includes(filePath, InstrumentationPaths[i])

\* the path under the first mapping whose container prefix it starts with
Rewrite(pathMappings, filePath) ==
    LET hits == { i \in 1..Len(pathMappings) :
                      HasPrefix(filePath, pathMappings[i].containerPrefix) }
        m == pathMappings[CHOOSE i \in hits : \A j \in hits : i <= j]
    IN  IF hits = {} THEN filePath
        ELSE m.localPrefix \o From(filePath, Len(m.containerPrefix) + 1)

\* remapped[key] = data: a key set again keeps its place
PutEntry(remapped, entry) ==
    IF \E i \in 1..Len(remapped) : remapped[i].key = entry.key
    THEN [i \in 1..Len(remapped) |->
              IF remapped[i].key = entry.key THEN entry ELSE remapped[i]]
    ELSE Append(remapped, entry)

RECURSIVE RemapEntries(_, _, _, _)
RemapEntries(fs, pathMappings, entries, remapped) ==
    IF entries = <<>> THEN remapped
    ELSE LET filePath == Head(entries)
             newPath == Rewrite(pathMappings, filePath)
         IN  RemapEntries(fs, pathMappings, Tail(entries),
                 IF IsInstrumentation(filePath) \/ ~existsSync(fs, newPath)
                 THEN remapped
                 ELSE PutEntry(remapped, [key |-> newPath,
                                          path |-> Rewrite(pathMappings, filePath)]))

\* _remapCoveragePaths(coverageData, sourceDir): the entries of the returned
\* object, each with its key and the path field of its data
remapCoveragePaths(fs, coverageData, sourceDir) ==
    RemapEntries(fs, detectContainerPaths(fs, coverageData, sourceDir), coverageData, <<>>)

\* names of directories and files
NApp == <<"a","p","p">>
NOpt == <<"o","p","t">>
NW == <<"w">>
NSrc == <<"s","r","c">>
NTest == <<"t","e","s","t">>
NNodeModules == <<"n","o","d","e","_","m","o","d","u","l","e","s">>
NFooJs == <<"f","o","o",".","j","s">>
NBarJs == <<"b","a","r",".","j","s">>
NTJs == <<"t",".","j","s">>
NLib == <<"l","i","b">>

AbsPath(parts) == << "/" >> \o JoinParts(parts, "/")

\* resolve(sourceDir)
SourceDir == AbsPath(<< NW >>)

\* the paths a payload may hold: under two container roots, and local ones
ObservedPool ==
    { AbsPath(<< NApp, NSrc, NFooJs >>), AbsPath(<< NApp, NSrc, NBarJs >>),
      AbsPath(<< NApp, NFooJs >>), AbsPath(<< NOpt, NSrc, NBarJs >>),
      AbsPath(<< NW, NSrc, NFooJs >>), AbsPath(<< NW, NSrc, NTest, NTJs >>) }

\* the most paths in a payload
MaxObserved == 2

\* the keys of a payload in their insertion order: no key twice
Payloads ==
    { s \in UNION { [1..n -> ObservedPool] : n \in 1..MaxObserved } :
          \A i, j \in 1..Len(s) : i # j => s[i] # s[j] }

\* the local file systems, each by its files in the order a walk meets them;
\* the last two hold the same files, met in two orders
LocalTrees ==
    { << AbsPath(<< NW, NSrc, NBarJs >>), AbsPath(<< NW, NSrc, NFooJs >>) >>,
      << AbsPath(<< NW, NNodeModules, NFooJs >>), AbsPath(<< NW, NSrc, NFooJs >>),
         AbsPath(<< NW, NSrc, NBarJs >>), AbsPath(<< NW, NSrc, NTest, NTJs >>) >>,
      << AbsPath(<< NW, NLib, NFooJs >>), AbsPath(<< NW, NSrc, NFooJs >>) >>,
      << AbsPath(<< NW, NSrc, NFooJs >>), AbsPath(<< NW, NLib, NFooJs >>) >> }

VARIABLES
    observed,       \* the keys of the coverage payload, in insertion order
    localFs,        \* the local files
    detected,       \* what _detectContainerPaths returned
    remapped        \* what _remapCoveragePaths returned

pathVars == << observed, localFs, detected, remapped >>

NotRun == [done |-> FALSE, out |-> <<>>]

PathInit ==
    /\ observed \in Payloads
    /\ localFs \in LocalTrees
    /\ detected = NotRun
    /\ remapped = NotRun

PathIdle ==
    /\ observed = <<>>
    /\ localFs = <<>>
    /\ detected = NotRun
    /\ remapped = NotRun

\* a call of _detectContainerPaths
DetectContainerPaths ==
    /\ ~detected.done
    /\ detected' = [done |-> TRUE,
                    out |-> detectContainerPaths(localFs, observed, SourceDir)]
    /\ UNCHANGED << observed, localFs, remapped >>

\* a call of _remapCoveragePaths
RemapCoveragePaths ==
    /\ ~remapped.done
    /\ remapped' = [done |-> TRUE,
                    out |-> remapCoveragePaths(localFs, observed, SourceDir)]
    /\ UNCHANGED << observed, localFs, detected >>


(***************************************************************************)
(* internal/processor: converting collected coverage into the report that  *)
(* is uploaded.  The Go format becomes a text report of lines               *)
(* "path:range count", the NYC format a JSON object keyed by path and its  *)
(* LCOV rendering.                                                         *)
(***************************************************************************)

\* filepath.IsAbs
IsAbs(path) == HasPrefix(path, << "/" >>)

\* filepath.Dir on paths without "." and ".." parts and doubled separators
Dir(path) ==
    IF LastIndex(path, "/") = 0 THEN << "." >>
    ELSE IF LastIndex(path, "/") = 1 THEN << "/" >>
    ELSE Before(path, LastIndex(path, "/"))

\* filepath.Join(dir, rel) on such paths
JoinPath(dir, rel) == IF rel = EmptyStr THEN dir ELSE dir \o << "/" >> \o rel

\* strings.TrimPrefix
TrimPrefix(s, p) == IF HasPrefix(s, p) THEN From(s, Len(p) + 1) ELSE s

\* the inner loop of detectSourcePrefix: commonPrefix is cut back until it is
\* a prefix of dir
RECURSIVE CutBack(_, _)
CutBack(commonPrefix, dir) ==
    IF ~HasPrefix(dir, commonPrefix) /\ commonPrefix # << "/" >> /\ commonPrefix # << "." >>
    THEN CutBack(Dir(commonPrefix), dir)
    ELSE commonPrefix

RECURSIVE CutBackAll(_, _)
CutBackAll(commonPrefix, paths) ==
    IF paths = <<>> THEN commonPrefix
    ELSE CutBackAll(CutBack(commonPrefix, Dir(Head(paths))), Tail(paths))

\* what the cutting back of the first directory ends with: the common
\* directory of the absolute paths, ending with the separator, "" when
\* there is none
CommonPrefix(paths) ==
    LET abs == SelectSeq(paths, IsAbs)
        commonPrefix == CutBackAll(Dir(abs[1]), Tail(abs))
    IN  IF abs = <<>> THEN EmptyStr
        ELSE IF commonPrefix \in { EmptyStr, << "/" >>, << "." >> } THEN EmptyStr
        ELSE IF HasSuffix(commonPrefix, << "/" >>) THEN commonPrefix
        ELSE commonPrefix \o << "/" >>

ModeLine == <<"m","o","d","e",":"," ","s","e","t">>
CountersText == <<":","1",".","1",",","2",".","2"," ","1"," ","1">>

\* go tool covdata textfmt: the mode line, then a line for each block
textfmt(paths) == << ModeLine >> \o [i \in 1..Len(paths) |-> paths[i] \o CountersText]

IsModeLine(line) == HasPrefix(line, <<"m","o","d","e",":">>)

\* the lines that carry a path
HasPath(line) == ~IsModeLine(line) /\ line # EmptyStr /\ Index(line, ":") # 0

\* line[:colonIdx]
PathOfLine(line) == Before(line, Index(line, ":"))

\* detectSourcePrefix(lines, repoRoot)
detectSourcePrefix(lines) ==
    LET carrying == SelectSeq(lines, HasPath)
    IN  CommonPrefix([i \in 1..Len(carrying) |-> PathOfLine(carrying[i])])

\* remapPathsToRelative: the lines written back to the coverage file
remapPathsToRelative(lines, repoRoot) ==
    LET sourcePrefix == detectSourcePrefix(lines)
        remap(path) ==
            IF sourcePrefix # EmptyStr /\ HasPrefix(path, sourcePrefix)
            THEN TrimPrefix(path, sourcePrefix)
            ELSE IF IsAbs(path) /\ HasPrefix(path, repoRoot \o << "/" >>)
            THEN TrimPrefix(path, repoRoot \o << "/" >>)
            ELSE path
    IN  [i \in 1..Len(lines) |->
            IF HasPath(lines[i])
            THEN remap(PathOfLine(lines[i])) \o From(lines[i], Index(lines[i], ":"))
            ELSE lines[i]]

\* applyFilters: the lines written to <coverage>_filtered.out
applyFilters(lines, filters) ==
    SelectSeq(lines, LAMBDA line :
        IsModeLine(line) \/ \A i \in 1..Len(filters) : ~Includes(line, filters[i]))

\* processGoCoverage: the coverage file and, when filters are given, the
\* filtered file the upload prefers
processGoCoverage(opts) ==
    LET converted == textfmt(opts.paths)
        coverage == IF opts.RepoRoot # EmptyStr
                    THEN remapPathsToRelative(converted, opts.RepoRoot)
                    ELSE converted
    IN  [format |-> "go", coverage |-> coverage,
         hasFiltered |-> opts.Filters # <<>>,
         filtered |-> IF opts.Filters # <<>> THEN applyFilters(coverage, opts.Filters)
                      ELSE <<>>,
         json |-> <<>>, lcov |-> <<>>,
         sourcePrefix |-> IF opts.RepoRoot # EmptyStr THEN detectSourcePrefix(converted)
                          ELSE EmptyStr]

\* the container prefixes remapNYCPaths tries
ContainerPrefixes ==
    << <<"/","o","p","t","/","a","p","p","-","r","o","o","t","/","s","r","c","/">>,
       <<"/","w","o","r","k","s","p","a","c","e","/">>,
       <<"/","a","p","p","/">>,
       <<"/","s","r","c","/">>,
       <<"/","h","o","m","e","/","n","o","d","e","/","a","p","p","/">> >>

\* detectNYCSourcePrefix(coverageData)
detectNYCSourcePrefix(keys) == CommonPrefix(keys)

\* newPath of remapNYCPaths
remapNYCPath(oldPath, sourcePrefix, absRepoRoot) ==
    LET hits == { i \in 1..Len(ContainerPrefixes) : HasPrefix(oldPath, ContainerPrefixes[i]) }
        prefix == ContainerPrefixes[CHOOSE i \in hits : \A j \in hits : i <= j]
    IN  IF sourcePrefix # EmptyStr /\ HasPrefix(oldPath, sourcePrefix)
        THEN JoinPath(absRepoRoot, TrimPrefix(oldPath, sourcePrefix))
        ELSE IF IsAbs(oldPath)
        THEN (IF hits = {} THEN oldPath
              ELSE JoinPath(absRepoRoot, TrimPrefix(oldPath, prefix)))
        ELSE JoinPath(absRepoRoot, oldPath)

\* remappedData[newPath] = fileCoverage
RECURSIVE PutKeys(_, _)
PutKeys(acc, keys) ==
    IF keys = <<>> THEN acc
    ELSE PutKeys(IF \E i \in 1..Len(acc) : acc[i] = Head(keys) THEN acc
                 ELSE Append(acc, Head(keys)),
                 Tail(keys))

\* remapNYCPaths: the keys of the coverage data afterwards
remapNYCPaths(keys, repoRoot) ==
    PutKeys(<<>>, [i \in 1..Len(keys) |->
                      remapNYCPath(keys[i], detectNYCSourcePrefix(keys), repoRoot)])

\* the SF record generateLCOV writes for each file
SourceFileRecords(keys) == [i \in 1..Len(keys) |-> <<"S","F",":">> \o keys[i]]

\* processNYCCoverage: the keys of the JSON written and the SF records of
\* its LCOV rendering
processNYCCoverage(opts) ==
    LET coverageData == IF opts.RepoRoot # EmptyStr
                        THEN remapNYCPaths(opts.paths, opts.RepoRoot)
                        ELSE opts.paths
    IN  [format |-> "nyc", coverage |-> <<>>, hasFiltered |-> FALSE, filtered |-> <<>>,
         json |-> coverageData, lcov |-> SourceFileRecords(coverageData),
         sourcePrefix |-> IF opts.RepoRoot # EmptyStr THEN detectNYCSourcePrefix(opts.paths)
                          ELSE EmptyStr]

NMainGo == <<"m","a","i","n",".","g","o">>
NServerGo == <<"c","o","v","e","r","a","g","e","_","s","e","r","v","e","r",".","g","o">>
NATestGo == <<"a","_","t","e","s","t",".","g","o">>
NPkg == <<"p","k","g">>
NApp2 == <<"a","p","p","2">>
NServerJs == <<"c","o","v","e","r","a","g","e","_","s","e","r","v","e","r",".","j","s">>
NRepo == <<"r","e","p","o">>

\* the paths the raw coverage of each format may name
RawPaths(format) ==
    IF format = "go"
    THEN { AbsPath(<< NApp, NMainGo >>), AbsPath(<< NApp, NServerGo >>),
           AbsPath(<< NApp, NPkg, NATestGo >>), JoinParts(<< NPkg, NMainGo >>, "/"),
           AbsPath(<< NApp2, NMainGo >>) }
    ELSE { AbsPath(<< NApp, NSrc, NFooJs >>), AbsPath(<< NApp, NServerJs >>),
           AbsPath(<< NOpt, NSrc, NBarJs >>), JoinParts(<< NSrc, NFooJs >>, "/"),
           AbsPath(<< NApp2, NFooJs >>) }

\* the most files in the raw coverage
MaxFiles == 2

RawCoverage(format) ==
    { s \in UNION { [1..n -> RawPaths(format)] : n \in 1..MaxFiles } :
          \A i, j \in 1..Len(s) : i # j => s[i] # s[j] }

\* --filters: none, the default of the process command, and others
FilterArgs ==
    { <<>>,
      << NServerGo, <<"*","_","t","e","s","t",".","g","o">> >>,
      << <<"c","o","v","e","r","a","g","e","_","s","e","r","v","e","r">> >>,
      << <<"p","k","g","/">>, <<"s","r","c","/">> >> }

\* the repository root: none, or the clone
RepoRoots == { EmptyStr, AbsPath(<< NW, NRepo >>) }

VARIABLES
    opts,           \* the ProcessOptions, with the paths of the raw coverage
    report          \* what the processor wrote

convVars == << opts, report >>

NoReport == [format |-> "none", coverage |-> <<>>, hasFiltered |-> FALSE,
             filtered |-> <<>>, json |-> <<>>, lcov |-> <<>>, sourcePrefix |-> EmptyStr]

ConvInit ==
    /\ \E format \in { "go", "nyc" } :
           opts \in [Format : { format }, paths : RawCoverage(format),
                     Filters : FilterArgs, RepoRoot : RepoRoots]
    /\ report = NoReport

ConvIdle ==
    /\ opts = [Format |-> "none", paths |-> <<>>, Filters |-> <<>>, RepoRoot |-> EmptyStr]
    /\ report = NoReport

\* Process with the Go format
ProcessGo ==
    /\ report = NoReport
    /\ opts.Format = "go"
    /\ report' = processGoCoverage(opts)
    /\ UNCHANGED opts

\* Process with the NYC format
ProcessNYC ==
    /\ report = NoReport
    /\ opts.Format = "nyc"
    /\ report' = processNYCCoverage(opts)
    /\ UNCHANGED opts


(***************************************************************************)
(* internal/processor generateLCOV: the line records of one file, derived  *)
(* from its statements                                                     *)
(***************************************************************************)

\* the most statements of a file
MaxStatements == 3

\* the lines statements start on, and the hit counts
StartLines == { 10, 11 }
HitCounts == { 0, 3, 7 }

\* a statement id with no entry in the counter map s
NotCounted == -1

\* the hits of a line that has some already, given one more count: the sum
MergeHits_sum(existing, count) == existing + count

\* the hits of a line that has some already, given one more count
MergeHits(existing, count) == IF count > existing THEN count ELSE existing

\* lineHits, filled from the statements in any order: a function from the
\* lines with a counted statement to their hits
RECURSIVE LineHits(_, _, _)
LineHits(statementMap, s, ids) ==
    IF ids = {} THEN << >>
    ELSE LET stmtID == CHOOSE id \in ids : TRUE
             rest == LineHits(statementMap, s, ids \ { stmtID })
             line == statementMap[stmtID]
         IN  IF s[stmtID] = NotCounted THEN rest
             ELSE IF line \in DOMAIN rest
             THEN [rest EXCEPT ![line] = MergeHits(rest[line], s[stmtID])]
             ELSE [l \in DOMAIN rest \cup { line } |->
                      IF l = line THEN s[stmtID] ELSE rest[l]]

\* the DA records generateLCOV may write for a file: one for each entry of
\* lineHits, in any order (the order of a map range)
DARecords(lineHits) ==
    LET lines == DOMAIN lineHits
        orders == { o \in [1..Cardinality(lines) -> lines] :
                        \A i, j \in DOMAIN o : i # j => o[i] # o[j] }
    IN  { [i \in DOMAIN o |-> [line |-> o[i], hits |-> lineHits[o[i]]]] : o \in orders }

\* the branches a file may have: none; one with the key "0"; two with the
\* keys "0" and "1"; one with a key that is not a number.  branchMap gives
\* each branch its line and the number of its locations, b its counts
BranchInfo(line) == [Line |-> line, Locations |-> 2]

LcovBranchKinds ==
    { [branchMap |-> << >>, b |-> << >>],
      [branchMap |-> [k \in { "0" } |-> BranchInfo(10)],
       b |-> [k \in { "0" } |-> << 3, 0 >>]],
      [branchMap |-> [k \in { "0", "1" } |-> IF k = "0" THEN BranchInfo(10) ELSE BranchInfo(11)],
       b |-> [k \in { "0", "1" } |-> IF k = "0" THEN << 3, 0 >> ELSE << 0, 7 >>]],
      [branchMap |-> [k \in { "a" } |-> BranchInfo(10)],
       b |-> [k \in { "a" } |-> << 3, 0 >>]] }

\* fmt.Sprintf("%d", branchID) for the ids a file of the model can have
Itoa(n) == << "0", "1", "2" >>[n + 1]

\* the orders in which a range over branchMap may meet its keys
KeyOrders(branchMap) ==
    { o \in [1..Cardinality(DOMAIN branchMap) -> DOMAIN branchMap] :
          \A i, j \in DOMAIN o : i # j => o[i] # o[j] }

\* the count generateLCOV writes for location i of the branch it gave the id
\* branchID
BranchCount(b, branchID, i) ==
    IF Itoa(branchID) \in DOMAIN b /\ i < Len(b[Itoa(branchID)])
    THEN b[Itoa(branchID)][i + 1]
    ELSE 0

\* the BRDA records of the branches met in the given order: for each branch
\* one record per location, with the running branchID
BRDARecords(branchMap, b, order) ==
    ConcatAll([g \in 1..Len(order) |->
                  [n \in 1..branchMap[order[g]].Locations |->
                      [line |-> branchMap[order[g]].Line, branchID |-> g - 1,
                       i |-> n - 1, hits |-> BranchCount(b, g - 1, n - 1)]]])

VARIABLES
    fileCoverage,   \* statementMap (start line of each statement), s (its count),
                    \* branchMap and b
    lcov            \* the records written for the file

lcovVars == << fileCoverage, lcov >>

NoLcov == [done |-> FALSE, DA |-> <<>>, LF |-> 0, LH |-> 0, BRDA |-> <<>>, order |-> <<>>]

LcovInit ==
    /\ \E n \in 1..MaxStatements, branches \in LcovBranchKinds :
           fileCoverage \in [statementMap : [1..n -> StartLines],
                             s : [1..n -> HitCounts \cup { NotCounted }],
                             branchMap : { branches.branchMap },
                             b : { branches.b }]
    /\ lcov = NoLcov

LcovIdle ==
    /\ fileCoverage = [statementMap |-> <<>>, s |-> <<>>, branchMap |-> <<>>, b |-> <<>>]
    /\ lcov = NoLcov

\* generateLCOV on the file; order is the order in which the range over
\* branchMap met the branches
GenerateLCOV ==
    /\ ~lcov.done
    /\ LET lineHits == LineHits(fileCoverage.statementMap, fileCoverage.s,
                                DOMAIN fileCoverage.statementMap)
       IN  \E da \in DARecords(lineHits), order \in KeyOrders(fileCoverage.branchMap) :
               lcov' = [done |-> TRUE, DA |-> da,
                        LF |-> Cardinality(DOMAIN lineHits),
                        LH |-> Cardinality({ l \in DOMAIN lineHits : lineHits[l] > 0 }),
                        BRDA |-> BRDARecords(fileCoverage.branchMap, fileCoverage.b, order),
                        order |-> order]
    /\ UNCHANGED fileCoverage


(***************************************************************************)
(* internal/processor showNYCCoverageSummary: the totals and percentages   *)
(* over the files of the coverage data                                     *)
(***************************************************************************)

\* statementMap or fnMap of a file (the ids) with its counter map s or f
NoEntities == [ids |-> {}, counts |-> << >>]

StatementKinds ==
    { NoEntities,
      [ids |-> { "0" }, counts |-> [k \in { "0" } |-> 0]],
      [ids |-> { "0" }, counts |-> [k \in { "0" } |-> 3]] }

FunctionKinds ==
    { NoEntities,
      [ids |-> { "0" }, counts |-> << >>],
      [ids |-> { "0" }, counts |-> [k \in { "0" } |-> 3]] }

\* branchMap of a file (the number of locations of each branch) with its
\* counter map b
NoBranches == [locations |-> << >>, counts |-> << >>]

BranchKinds ==
    { NoBranches,
      [locations |-> [k \in { "0" } |-> 2], counts |-> << >>],
      [locations |-> [k \in { "0" } |-> 2], counts |-> [k \in { "0" } |-> << 3, 0 >>]],
      [locations |-> [k \in { "0" } |-> 2], counts |-> [k \in { "0" } |-> << 3 >>]] }

\* the most files in the coverage data
MaxSummaryFiles == 2

\* the entities of one file that are covered: those with a count above 0
CoveredIn(entities) ==
    Cardinality({ id \in entities.ids :
                      id \in DOMAIN entities.counts /\ entities.counts[id] > 0 })

\* the branch locations of one file, and those of them covered
BranchSlots(branches) ==
    { slot \in (DOMAIN branches.locations) \X (0..1) : slot[2] < branches.locations[slot[1]] }

CoveredSlots(branches) ==
    Cardinality({ slot \in BranchSlots(branches) :
                      /\ slot[1] \in DOMAIN branches.counts
                      /\ slot[2] < Len(branches.counts[slot[1]])
                      /\ branches.counts[slot[1]][slot[2] + 1] > 0 })

\* the sum of the numbers of a sequence
RECURSIVE SumSeq(_)
SumSeq(s) == IF s = << >> THEN 0 ELSE Head(s) + SumSeq(Tail(s))

\* the percentage with no test of the total
Pct_unguarded(covered, total) == [num |-> covered * 100, den |-> total]

\* float64(covered) / float64(total) * 100, kept as a fraction; 0 when the
\* total is 0
Pct(covered, total) ==
    IF total > 0 THEN [num |-> covered * 100, den |-> total] ELSE [num |-> 0, den |-> 1]

\* one line of the summary: the percentage and (covered/total)
SummaryLine(covered, total) ==
    [pct |-> Pct(covered, total), covered |-> covered, total |-> total]

\* showNYCCoverageSummary(coverageData)
showNYCCoverageSummary(coverageData) ==
    LET n == Len(coverageData)
        totalStatements == SumSeq([i \in 1..n |-> Cardinality(coverageData[i].statements.ids)])
        coveredStatements == SumSeq([i \in 1..n |-> CoveredIn(coverageData[i].statements)])
        totalFunctions == SumSeq([i \in 1..n |-> Cardinality(coverageData[i].functions.ids)])
        coveredFunctions == SumSeq([i \in 1..n |-> CoveredIn(coverageData[i].functions)])
        totalBranches == SumSeq([i \in 1..n |-> Cardinality(BranchSlots(coverageData[i].branches))])
        coveredBranches == SumSeq([i \in 1..n |-> CoveredSlots(coverageData[i].branches)])
    IN  [Statements |-> SummaryLine(coveredStatements, totalStatements),
         Functions |-> SummaryLine(coveredFunctions, totalFunctions),
         Branches |-> SummaryLine(coveredBranches, totalBranches),
         Files |-> n]

VARIABLES
    summaryData,    \* the coverage data: the files with their maps
    printed         \* the summary printed

sumVars == << summaryData, printed >>

SumInit ==
    /\ \E n \in 1..MaxSummaryFiles :
           summaryData \in [1..n -> [statements : StatementKinds,
                                     functions : FunctionKinds,
                                     branches : BranchKinds]]
    /\ printed = << >>

SumIdle ==
    /\ summaryData = << >>
    /\ printed = << >>

\* a call of showNYCCoverageSummary
ShowNYCCoverageSummary ==
    /\ printed = << >>
    /\ printed' = << showNYCCoverageSummary(summaryData) >>
    /\ UNCHANGED summaryData


(***************************************************************************)
(* The files of the process phase: runProcess and processFromManifest      *)
(* (src/cli/cmd/root.go).  A path is the sequence of its names, as         *)
(* filepath.Abs leaves it; the disk is the set of the paths that exist.    *)
(***************************************************************************)
NoPath == <<>>

\* p is dir or lies beneath it
IsUnder(p, dir) == Len(p) >= Len(dir) /\ SubSeq(p, 1, Len(dir)) = dir

\* strings.HasPrefix(p, dir + string(filepath.Separator))
StrictlyUnder(p, dir) == Len(p) > Len(dir) /\ SubSeq(p, 1, Len(dir)) = dir

\* os.MkdirAll and os.RemoveAll
MkdirAll(d, path) == d \cup { SubSeq(path, 1, n) : n \in 1..Len(path) }
RemoveAll(d, path) == { p \in d : ~IsUnder(p, path) }

\* os.MkdirTemp("", "coverport-process-*")
TempDir == << "tmp", "coverport-process" >>

\* the values of --coverage-dir and --workspace; NoPath is the flag left out
CoverageDirs == { NoPath, << "cov" >>, << "ws", "cov" >> }
WorkspaceDirs == { NoPath, << "ws" >>, << "cov" >>, << "cov", "w" >> }

\* the components a collect run wrote into metadata.json: CoverageDir is
\* filepath.Join(ComponentName, testName-ComponentName)
ProcComponent(name) == [ Name |-> name, CoverageDir |-> << name, "t-" \o name >> ]
ProcManifests ==
    { <<>>, << ProcComponent("a") >>, << ProcComponent("a"), ProcComponent("b") >> }

\* what the coverage directory holds before the run: metadata.json and the
\* component directories of a collect run, or the counters of one component
CollectedData(o) ==
    IF o.coverageDir = NoPath THEN {}
    ELSE MkdirAll({}, o.coverageDir) \cup
         IF o.layout = "manifest"
         THEN { o.coverageDir \o << "metadata.json" >> } \cup
              UNION { MkdirAll({}, o.coverageDir \o o.components[i].CoverageDir \o << "covdata" >>)
                      : i \in 1..Len(o.components) }
         ELSE { o.coverageDir \o << "covcounters" >> }

\* manifest.Exists
ManifestExists(d, coverageDir) == (coverageDir \o << "metadata.json" >>) \in d

ProcOptions ==
    [ artifactRef : BOOLEAN, coverageDir : CoverageDirs, workspaceDir : WorkspaceDirs,
      keepWorkspace : BOOLEAN, gitInfo : { "image", "repo", "none" },
      skipClone : BOOLEAN, layout : { "manifest", "legacy" },
      components : ProcManifests ]

VARIABLES procOpts, disk, run

procVars == << procOpts, disk, run >>

NotStarted ==
    [ pc |-> "start", workspace |-> NoPath, deferred |-> FALSE, idx |-> 0,
      successCount |-> 0 ]

ProcInit ==
    /\ procOpts \in { o \in ProcOptions : o.layout = "legacy" => o.components = <<>> }
    /\ disk = CollectedData(procOpts)
    /\ run = NotStarted

ProcIdle ==
    /\ procOpts = [ artifactRef |-> FALSE, coverageDir |-> NoPath, workspaceDir |-> NoPath,
                    keepWorkspace |-> FALSE, gitInfo |-> "none", skipClone |-> FALSE,
                    layout |-> "legacy", components |-> <<>> ]
    /\ disk = {}
    /\ run = NotStarted

\* exitWithError: os.Exit(1) ends the process at once; deferred calls do not run
ExitWithError(r) == [ r EXCEPT !.pc = "exited" ]

\* setupWorkspace
SetupWorkspace(o) == IF o.workspaceDir # NoPath THEN o.workspaceDir ELSE TempDir

\* the safety check of runProcess before the cleanup is deferred
WorkspaceConflict(o, ws) ==
    /\ ~o.artifactRef
    /\ ~o.keepWorkspace
    /\ \/ StrictlyUnder(o.coverageDir, ws)
       \/ StrictlyUnder(ws, o.coverageDir)

\* runProcess up to the deferred cleanup: validation, the choice between the
\* manifest and the legacy workflow, setupWorkspace and the safety check
RunProcess ==
    /\ run.pc = "start"
    /\ UNCHANGED procOpts
    /\ LET o == procOpts IN
       IF (~o.artifactRef /\ o.coverageDir = NoPath) \/ (o.artifactRef /\ o.coverageDir # NoPath)
       THEN run' = ExitWithError(run) /\ UNCHANGED disk
       ELSE IF o.coverageDir # NoPath /\ ManifestExists(disk, o.coverageDir)
       THEN run' = [ run EXCEPT !.pc = "manifest" ] /\ UNCHANGED disk
       ELSE IF o.gitInfo = "none"
       THEN run' = ExitWithError(run) /\ UNCHANGED disk
       ELSE \E created \in BOOLEAN :
              IF ~created
              THEN run' = ExitWithError(run) /\ UNCHANGED disk
              ELSE LET ws == SetupWorkspace(o) IN
                   /\ disk' = MkdirAll(disk, ws)
                   /\ run' = IF WorkspaceConflict(o, ws)
                             THEN ExitWithError([ run EXCEPT !.workspace = ws ])
                             ELSE [ run EXCEPT !.pc = "pull", !.workspace = ws,
                                               !.deferred = ~o.keepWorkspace ]

\* step 1: pullCoverageArtifact, or the local coverage directory
PullCoverage ==
    /\ run.pc = "pull"
    /\ UNCHANGED procOpts
    /\ IF ~procOpts.artifactRef
       THEN run' = [ run EXCEPT !.pc = "meta" ] /\ UNCHANGED disk
       ELSE \E outcome \in { "oras", "mkdir", "pull", "metadata", "ok" } :
              /\ disk' = IF outcome \in { "oras", "mkdir" } THEN disk
                         ELSE MkdirAll(disk, run.workspace \o << "coverage-raw" >>)
              /\ run' = IF outcome = "ok" THEN [ run EXCEPT !.pc = "meta" ]
                        ELSE ExitWithError(run)

\* step 2: the git metadata, given or extracted from the image
ExtractGitMetadata ==
    /\ run.pc = "meta"
    /\ UNCHANGED << procOpts, disk >>
    /\ IF procOpts.gitInfo = "repo"
       THEN run' = [ run EXCEPT !.pc = "clone" ]
       ELSE \E ok \in BOOLEAN :
              run' = IF ok THEN [ run EXCEPT !.pc = "clone" ] ELSE ExitWithError(run)

\* step 3: cloneRepository into <workspace>/repo, or the stat of --skip-clone
CloneRepository ==
    /\ run.pc = "clone"
    /\ UNCHANGED procOpts
    /\ LET repoDir == run.workspace \o << "repo" >> IN
       IF procOpts.skipClone
       THEN /\ UNCHANGED disk
            /\ run' = IF repoDir \in disk THEN [ run EXCEPT !.pc = "convert" ]
                      ELSE ExitWithError(run)
       ELSE \E ok \in BOOLEAN :
              /\ disk' = MkdirAll(disk, repoDir)
              /\ run' = IF ok THEN [ run EXCEPT !.pc = "convert" ] ELSE ExitWithError(run)

\* step 4: processCoverage writes <workspace>/coverage.out
ProcessCoverage ==
    /\ run.pc = "convert"
    /\ UNCHANGED procOpts
    /\ \E ok \in BOOLEAN :
         IF ok
         THEN /\ disk' = disk \cup { run.workspace \o << "coverage.out" >> }
              /\ run' = [ run EXCEPT !.pc = "upload" ]
         ELSE /\ UNCHANGED disk
              /\ run' = ExitWithError(run)

\* step 5 and the return of runProcess: an upload failure is a warning; the
\* deferred cleanupWorkspace runs
FinishProcess ==
    /\ run.pc = "upload"
    /\ UNCHANGED procOpts
    /\ disk' = IF run.deferred THEN RemoveAll(disk, run.workspace) ELSE disk
    /\ run' = [ run EXCEPT !.pc = "returned" ]

\* processFromManifest up to the loop: manifest.Load and the empty manifest
LoadManifest ==
    /\ run.pc = "manifest"
    /\ UNCHANGED << procOpts, disk >>
    /\ \E loaded \in BOOLEAN :
         run' = IF ~loaded \/ procOpts.components = <<>> THEN ExitWithError(run)
                ELSE [ run EXCEPT !.pc = "loop", !.idx = 1 ]

\* the workspace of one component in processFromManifest
ComponentWorkspace(o, component) ==
    IF o.workspaceDir # NoPath THEN o.workspaceDir \o << component.Name >>
    ELSE o.coverageDir \o << component.Name \o "-workspace" >>

\* what processComponent leaves in its workspace, by the step that ended it
ProcessComponentFiles(o, ws, outcome) ==
    (IF outcome \in { "clone", "convert", "ok" } /\ ~o.skipClone
     THEN MkdirAll({}, ws \o << "repo" >>) ELSE {})
    \cup (IF outcome = "ok" THEN { ws \o << "coverage.out" >> } ELSE {})

\* one pass of the loop of processFromManifest
ProcessManifestComponent ==
    /\ run.pc = "loop"
    /\ run.idx <= Len(procOpts.components)
    /\ UNCHANGED procOpts
    /\ LET o == procOpts
           ws == ComponentWorkspace(o, o.components[run.idx])
       IN  \E created \in BOOLEAN, outcome \in { "meta", "clone", "convert", "ok" } :
             IF ~created
             THEN /\ UNCHANGED disk
                  /\ run' = [ run EXCEPT !.idx = @ + 1 ]
             ELSE /\ disk' = LET after == MkdirAll(disk, ws) \cup ProcessComponentFiles(o, ws, outcome)
                             IN  IF o.keepWorkspace THEN after ELSE RemoveAll(after, ws)
                  /\ run' = [ run EXCEPT !.idx = @ + 1,
                                         !.successCount = IF outcome = "ok" THEN @ + 1 ELSE @ ]

\* the summary of processFromManifest
FinishManifest ==
    /\ run.pc = "loop"
    /\ run.idx > Len(procOpts.components)
    /\ UNCHANGED << procOpts, disk >>
    /\ run' = IF run.successCount = 0 THEN ExitWithError(run)
              ELSE [ run EXCEPT !.pc = "returned" ]


(***************************************************************************)
(* The specifications: one per program.  The variables of the programs a   *)
(* specification does not run keep their initial values.                   *)
(***************************************************************************)

vars == << cliVars, clientVars, serverVars, imageVars, pathVars, convVars, lcovVars, sumVars, procVars >>

\* the variables a program leaves alone
exceptCli == << clientVars, serverVars, imageVars, pathVars, convVars, lcovVars, sumVars, procVars >>
exceptClient == << cliVars, serverVars, imageVars, pathVars, convVars, lcovVars, sumVars, procVars >>
exceptServer == << cliVars, clientVars, imageVars, pathVars, convVars, lcovVars, sumVars, procVars >>
exceptImage == << cliVars, clientVars, serverVars, pathVars, convVars, lcovVars, sumVars, procVars >>
exceptPath == << cliVars, clientVars, serverVars, imageVars, convVars, lcovVars, sumVars, procVars >>
exceptConv == << cliVars, clientVars, serverVars, imageVars, pathVars, lcovVars, sumVars, procVars >>
exceptLcov == << cliVars, clientVars, serverVars, imageVars, pathVars, convVars, sumVars, procVars >>
exceptSum == << cliVars, clientVars, serverVars, imageVars, pathVars, convVars, lcovVars, procVars >>
exceptProc == << cliVars, clientVars, serverVars, imageVars, pathVars, convVars, lcovVars, sumVars >>

CliIdle ==
    /\ cmd = "none" /\ flags = <<>> /\ pc = "exited" /\ kubeClient = FALSE
    /\ apiCalls = 0 /\ env = NoEnv /\ podsToCollect = <<>> /\ log = <<>>
    /\ successCount = 0 /\ failedComponents = <<>> /\ manifest = <<>>
    /\ saveCalls = 0 /\ saved = NotSaved /\ summary = FALSE /\ exitCode = 0

\* the CLI: collect, discover, process
Init == CliInit /\ ClientInit /\ ServerInit /\ ImageIdle /\ PathIdle /\ ConvIdle /\ LcovIdle /\ SumIdle /\ ProcIdle
Next ==
    \/ ValidateCollect /\ UNCHANGED exceptCli
    \/ ValidateDiscover /\ UNCHANGED exceptCli
    \/ SetupKubeClient /\ UNCHANGED exceptCli
    \/ Discover /\ UNCHANGED exceptCli
    \/ CollectFromPod /\ UNCHANGED exceptCli
    \/ FinishCollect /\ UNCHANGED exceptCli
    \/ CollectFromURL /\ UNCHANGED exceptCli
    \/ ProcessStart /\ UNCHANGED exceptCli
    \/ ProcessLoad /\ UNCHANGED exceptCli
    \/ ProcessComponent /\ UNCHANGED exceptCli
    \/ ProcessFinish /\ UNCHANGED exceptCli
Spec == Init /\ [][Next]_vars

\* the Node.js client
InitClient == CliIdle /\ ClientInit /\ ServerInit /\ ImageIdle /\ PathIdle /\ ConvIdle /\ LcovIdle /\ SumIdle /\ ProcIdle
NextClient ==
    \/ StartAttempt /\ UNCHANGED exceptClient
    \/ PfError /\ UNCHANGED exceptClient
    \/ AfterSleep /\ UNCHANGED exceptClient
    \/ Probe /\ UNCHANGED exceptClient
    \/ ProbeLoopExit /\ UNCHANGED exceptClient
    \/ FetchRequest /\ UNCHANGED exceptClient
    \/ FetchResponse /\ UNCHANGED exceptClient
    \/ FetchReturn /\ UNCHANGED exceptClient
    \/ Reset /\ UNCHANGED exceptClient
SpecClient == InitClient /\ [][NextClient]_vars

\* the Node.js coverage server
InitServer == CliIdle /\ ClientInit /\ ServerInit /\ ImageIdle /\ PathIdle /\ ConvIdle /\ LcovIdle /\ SumIdle /\ ProcIdle
NextServer ==
    \/ AppHit /\ UNCHANGED exceptServer
    \/ HandleCoverageReset /\ UNCHANGED exceptServer
    \/ HandleCoverageDump /\ UNCHANGED exceptServer
    \/ InspectorAnswer /\ UNCHANGED exceptServer
SpecServer == InitServer /\ [][NextServer]_vars

\* normalizeImageRef
InitImage == CliIdle /\ ClientInit /\ ServerInit /\ ImageInit /\ PathIdle /\ ConvIdle /\ LcovIdle /\ SumIdle /\ ProcIdle
NextImage ==
    \/ Normalize /\ UNCHANGED exceptImage
SpecImage == InitImage /\ [][NextImage]_vars

\* the path reconciliation of the Node.js client
InitPath == CliIdle /\ ClientInit /\ ServerInit /\ ImageIdle /\ PathInit /\ ConvIdle /\ LcovIdle /\ SumIdle /\ ProcIdle
NextPath ==
    \/ DetectContainerPaths /\ UNCHANGED exceptPath
    \/ RemapCoveragePaths /\ UNCHANGED exceptPath
SpecPath == InitPath /\ [][NextPath]_vars

\* the coverage processor
InitConv == CliIdle /\ ClientInit /\ ServerInit /\ ImageIdle /\ PathIdle /\ ConvInit /\ LcovIdle /\ SumIdle /\ ProcIdle
NextConv ==
    \/ ProcessGo /\ UNCHANGED exceptConv
    \/ ProcessNYC /\ UNCHANGED exceptConv
SpecConv == InitConv /\ [][NextConv]_vars

\* generateLCOV
InitLcov ==
    CliIdle /\ ClientInit /\ ServerInit /\ ImageIdle /\ PathIdle /\ ConvIdle /\ LcovInit /\ SumIdle /\ ProcIdle
NextLcov ==
    \/ GenerateLCOV /\ UNCHANGED exceptLcov
SpecLcov == InitLcov /\ [][NextLcov]_vars

\* showNYCCoverageSummary
InitSum ==
    CliIdle /\ ClientInit /\ ServerInit /\ ImageIdle /\ PathIdle /\ ConvIdle /\ LcovIdle /\ SumInit /\ ProcIdle
NextSum ==
    \/ ShowNYCCoverageSummary /\ UNCHANGED exceptSum
SpecSum == InitSum /\ [][NextSum]_vars

\* the process phase's workspace and files
InitProc ==
    CliIdle /\ ClientInit /\ ServerInit /\ ImageIdle /\ PathIdle /\ ConvIdle /\ LcovIdle /\ SumIdle /\ ProcInit
NextProc ==
    \/ RunProcess /\ UNCHANGED exceptProc
    \/ PullCoverage /\ UNCHANGED exceptProc
    \/ ExtractGitMetadata /\ UNCHANGED exceptProc
    \/ CloneRepository /\ UNCHANGED exceptProc
    \/ ProcessCoverage /\ UNCHANGED exceptProc
    \/ FinishProcess /\ UNCHANGED exceptProc
    \/ LoadManifest /\ UNCHANGED exceptProc
    \/ ProcessManifestComponent /\ UNCHANGED exceptProc
    \/ FinishManifest /\ UNCHANGED exceptProc
SpecProc == InitProc /\ [][NextProc]_vars

\* the process phase as it runs: one step after the other until the process
\* ends, so a step that can be taken is taken
SpecProcFair == InitProc /\ [][NextProc]_vars /\ WF_vars(NextProc)


(***************************************************************************)
(* Properties of the collect run (Spec)                                    *)
(***************************************************************************)

\* a collect run that discovered at least one target, so reached its loop
CollectRun == cmd = "collect" /\ podsToCollect # <<>>

\* a process run that loaded a manifest with components, so reached its loop
ProcessRun == cmd = "process" /\ manifest # <<>>

Ended == pc = "exited"

\* the passes of the loop that collected their target
OkPasses == SelectSeq(log, LAMBDA e : e.outcome = "ok")

\* C1: a collect run over N >= 1 discovered targets ends with a non-zero exit
\* code if and only if no target was collected; one target collected is
\* enough for exit code 0, whatever happened to the others, to the manifest's
\* save and to the push.
C1_HardFailureIffZeroSuccesses ==
    (CollectRun /\ Ended) =>
        /\ exitCode \in {0, 1}
        /\ (exitCode # 0) <=> (OkPasses = <<>>)

\* a run that ended with exit code 0 although one of its targets failed
C1_Witness ==
    /\ CollectRun /\ Ended /\ exitCode = 0
    /\ \E i \in 1..Len(log) : log[i].outcome # "ok"

\* C2: the k-th pass of the loop attempts the k-th target, and a run that
\* ended has made one pass per discovered target; the manifest holds the
\* records of the collected targets, in order, and nothing else; with three
\* targets of which the second fails while collecting, the manifest ends
\* with two records and the run with exit code 0.
C2_OnePassPerTargetOneRecordPerSuccess ==
    CollectRun =>
        /\ Len(log) <= Len(podsToCollect)
        /\ \A k \in 1..Len(log) : log[k].target = k
        /\ Ended => Len(log) = Len(podsToCollect)
        /\ manifest = [ k \in 1..Len(OkPasses) |->
                          ComponentInfoOf(podsToCollect[OkPasses[k].target]) ]
        /\ ( /\ Ended /\ Len(podsToCollect) = 3
             /\ [k \in 1..Len(log) |-> log[k].outcome] = <<"ok", "collect", "ok">> )
           => (Len(manifest) = 2 /\ exitCode = 0)

\* three targets, the second failed while collecting, the run has ended
C2_Witness ==
    /\ CollectRun /\ Ended /\ Len(podsToCollect) = 3
    /\ [k \in 1..Len(log) |-> log[k].outcome] = <<"ok", "collect", "ok">>
    /\ Len(manifest) = 2

\* C3 as stated: every collect run that reached its loop and ended has
\* saved the manifest exactly once, however many targets failed.
C3_SavedOnceWhateverFailed ==
    (CollectRun /\ Ended) => saveCalls = 1

\* C3: CollectionManifest.Save is not called while targets are still to be
\* attempted; a run that ended has called it exactly once if at least one
\* target was collected, and not at all if every target failed; what a
\* successful save wrote is the manifest of the collected targets.
C3_SavedOnceIffSomeSuccess ==
    CollectRun =>
        /\ ~Ended => (saveCalls = 0 /\ saved = NotSaved)
        /\ Ended => /\ Len(log) = Len(podsToCollect)
                    /\ saveCalls = (IF OkPasses = <<>> THEN 0 ELSE 1)
                    /\ saved \in {NotSaved, [written |-> TRUE, components |-> manifest]}
                    /\ (OkPasses = <<>>) => saved = NotSaved

\* a run with a failed target that saved its manifest, after every target
\* was attempted
C3_Witness ==
    /\ CollectRun /\ Ended /\ saveCalls = 1 /\ saved.written /\ saved.components = manifest
    /\ \E i \in 1..Len(log) : log[i].outcome # "ok"
    /\ Len(log) = Len(podsToCollect) /\ Len(log) >= 2

\* C4 as stated: every collect run and every manifest-driven process run
\* that reached its loop and ended has printed its summary.
C4_SummaryAlways ==
    ((CollectRun \/ ProcessRun) /\ Ended /\ Len(log) > 0) => summary

\* the components the loop of processFromManifest gave up on
GivenUp ==
    SelectSeq(log, LAMBDA e : e.outcome \in {"workspace", "metadata", "clone", "coverage"})

\* C4: a manifest-driven process run that went through its loop has printed
\* its summary when it ends, also when every component failed: the number
\* processed and the names of the failed components, a failed upload not
\* counting as a failure.  A collect run has printed its "collected k/N"
\* line when it ends if and only if at least one target was collected.
C4_SummaryUnlessCollectFailedAll ==
    /\ (ProcessRun /\ Ended /\ Len(log) > 0) =>
          /\ summary
          /\ failedComponents = [k \in 1..Len(GivenUp) |-> manifest[GivenUp[k].target].Name]
          /\ successCount = Len(log) - Len(GivenUp)
    /\ (CollectRun /\ Ended) => (summary <=> OkPasses # <<>>)

\* a process run whose components all failed ended with its summary printed
C4_Witness ==
    /\ ProcessRun /\ Ended /\ summary /\ exitCode = 1
    /\ Len(log) = Len(manifest) /\ Len(GivenUp) = Len(log)

\* the discovery variants of the command line
Variants == {"url", "snapshotJSON", "snapshotFile", "images", "labelSelector", "podNames"}

ActiveVariants == {v \in Variants : flags[v]}

\* C5: a collect or discover run whose command line activates no discovery
\* variant, or more than one, never gets a Kubernetes client and never calls
\* the API, and ends with exit code 1; a run that is past the validation
\* has exactly one variant active.
C5_OneVariantOrRejectedBeforeSetup ==
    (cmd \in {"collect", "discover"}) =>
        /\ Cardinality(ActiveVariants) # 1 =>
              /\ ~kubeClient /\ apiCalls = 0
              /\ pc \in {"start", "exited"}
              /\ Ended => exitCode = 1
        /\ (pc \in {"setup", "discover", "loop", "url"} \/ kubeClient \/ apiCalls > 0)
              => Cardinality(ActiveVariants) = 1

\* a run with two variants on its command line was rejected
C5_Witness ==
    /\ cmd \in {"collect", "discover"} /\ Cardinality(ActiveVariants) = 2
    /\ Ended /\ exitCode = 1 /\ ~kubeClient

BySnapshot == cmd \in {"collect", "discover"} /\ (flags.snapshotJSON \/ flags.snapshotFile)

C7_DistinctDirectories ==
    CollectRun =>
        /\ \A i, j \in 1..Len(OkPasses) :
              i # j => /\ OkPasses[i].dir # OkPasses[j].dir
                       /\ OkPasses[i].artifacts # OkPasses[j].artifacts
        /\ \A i, j \in 1..Len(manifest) :
              i # j => manifest[i].CoverageDir # manifest[j].CoverageDir


(***************************************************************************)
(* Properties of the discovery (Spec)                                      *)
(***************************************************************************)

\* the run is past its discovery, which was by images (given or taken from
\* a snapshot) and returned no error
ByImagesDone ==
    /\ cmd \in {"collect", "discover"} /\ pc \in {"loop", "exited"} /\ kubeClient
    /\ flags.snapshotJSON \/ flags.snapshotFile \/ flags.images
    /\ env # NoEnv /\ env.err = ""

\* the images asked for
RequestedImages ==
    IF flags.images THEN {ImagesArg[i] : i \in 1..Len(ImagesArg)}
    ELSE {env.snap[i].containerImage : i \in 1..Len(env.snap)}

\* the namespaces whose pods the discovery got listed
ListedNamespaces ==
    (IF flags.namespace # EmptyStr THEN {flags.namespace}
     ELSE {ClusterNamespaces[i] : i \in 1..Len(ClusterNamespaces)}
              \ {ns \in {ClusterNamespaces[i] : i \in 1..Len(ClusterNamespaces)} :
                    isSystemNamespace(ns)})
        \ env.api.podListFails

\* the (pod, container) pairs of running pods of the listed namespaces whose
\* container runs a requested image, tag and digest aside
MatchingPairs ==
    UNION { { <<env.cluster[p].ns, env.cluster[p].name, env.cluster[p].containers[c].name>> :
                c \in { k \in 1..Len(env.cluster[p].containers) :
                          \E img \in RequestedImages :
                              normalizeImageRef(env.cluster[p].containers[k].image)
                                  = normalizeImageRef(img) } } :
            p \in { q \in 1..Len(env.cluster) :
                      /\ env.cluster[q].phase = "Running"
                      /\ env.cluster[q].ns \in ListedNamespaces } }

\* C13: discovery by images returns one target for every (pod, container)
\* pair of a running pod in a listed namespace whose container's normalized
\* image equals the normalized form of a requested image: each such pair
\* once, and no other pair.  The targets and the cluster are not written
\* after discovery, so the state discovery returns in is the one looked at.
C13_OneTargetPerRunningMatchingContainer ==
    (ByImagesDone /\ log = <<>>) =>
        /\ { <<podsToCollect[i].Namespace, podsToCollect[i].Name,
               podsToCollect[i].ContainerName>> : i \in 1..Len(podsToCollect) }
              = MatchingPairs
        /\ Cardinality(MatchingPairs) = Len(podsToCollect)

\* the cluster held a pending pod running a requested image besides the
\* pods that were resolved; two targets came from the two containers of fe-2
C13_Witness ==
    /\ ByImagesDone /\ flags.images /\ Len(podsToCollect) = 2
    /\ \E p \in 1..Len(env.cluster) : env.cluster[p].phase # "Running"
    /\ \A i \in 1..Len(podsToCollect) : podsToCollect[i].Name = "fe-2"

\* the names the deny-list of the specification names in full
ExactSystemNames ==
    { <<"k","u","b","e","-","s","y","s","t","e","m">>,
      <<"k","u","b","e","-","p","u","b","l","i","c">>,
      <<"k","u","b","e","-","n","o","d","e","-","l","e","a","s","e">>,
      <<"d","e","f","a","u","l","t">> }

\* C14 as stated: without a namespace hint, discovery by images lists the
\* pods of a namespace if and only if its name is none of kube-system,
\* kube-public, kube-node-lease, default and does not start with openshift;
\* with a hint it lists the pods of exactly that namespace.
C14_SearchedIffNotOnDenyList ==
    ByImagesDone =>
        IF flags.namespace # EmptyStr THEN env.listed = <<flags.namespace>>
        ELSE {env.listed[i] : i \in 1..Len(env.listed)}
               = { ns \in {ClusterNamespaces[i] : i \in 1..Len(ClusterNamespaces)} :
                     /\ ns \notin ExactSystemNames
                     /\ ~HasPrefix(ns, <<"o","p","e","n","s","h","i","f","t">>) }

\* the pod a target was resolved from
PodOf(t) ==
    CHOOSE pod \in {env.cluster[p] : p \in 1..Len(env.cluster)} :
        pod.name = t.Name /\ pod.ns = t.Namespace

\* C15 as stated: every target a cluster discovery returned has a
\* componentName that is not empty and is the value of the first label its
\* pod has among app.kubernetes.io/name, app, app.kubernetes.io/component,
\* or without such a label the basename of its image without tag and digest.
C15_ComponentNameDerivedAndNonEmpty ==
    (cmd \in {"collect", "discover"}) =>
        \A i \in 1..Len(podsToCollect) :
            LET t == podsToCollect[i]
                labels == PodOf(t).labels
            IN  /\ t.ComponentName # EmptyStr
                /\ t.ComponentName =
                     IF "app.kubernetes.io/name" \in DOMAIN labels
                     THEN labels["app.kubernetes.io/name"]
                     ELSE IF "app" \in DOMAIN labels THEN labels["app"]
                     ELSE IF "app.kubernetes.io/component" \in DOMAIN labels
                     THEN labels["app.kubernetes.io/component"]
                     ELSE ImageBasename(t.Image)

\* C16 as stated: a collect or discover run by label selector or by pod
\* names without a namespace never gets a Kubernetes client and never calls
\* the API, and ends with exit code 1.
C16_NamespaceRequiredBeforeSetup ==
    ( /\ cmd \in {"collect", "discover"}
      /\ ActiveVariants \in {{"labelSelector"}, {"podNames"}}
      /\ flags.namespace = EmptyStr )
    => /\ ~kubeClient /\ apiCalls = 0
       /\ pc \in {"start", "exited"}
       /\ Ended => exitCode = 1

\* the run is past its discovery
DiscoveryDone == cmd \in {"collect", "discover"} /\ kubeClient /\ pc \in {"loop", "exited"}

\* a call the discovery made against the API failed
ApiCallFailed ==
    \/ /\ flags.snapshotJSON \/ flags.snapshotFile \/ flags.images
       /\ env.err # "parse snapshot"
       /\ \/ flags.namespace = EmptyStr /\ env.api.nsListFails
          \/ \E i \in 1..Len(env.listed) : env.listed[i] \in env.api.podListFails
    \/ /\ flags.labelSelector /\ flags.namespace # EmptyStr
       /\ flags.namespace \in env.api.podListFails
    \/ /\ flags.podNames
       /\ \E i \in 1..Len(PodNamesArg) : PodNamesArg[i] \in env.api.getFails

\* C17 as stated: a discovery during which a call against the API failed
\* (listing the namespaces, listing the pods of a namespace, getting a pod)
\* has returned an error, not a list of targets.
C17_ApiFailureIsAnError ==
    (DiscoveryDone /\ ApiCallFailed) => (env.err # "" /\ podsToCollect = <<>>)

(***************************************************************************)
(* Properties of the Node.js client (SpecClient)                           *)
(***************************************************************************)

\* the attempt has delivered its result: its promise is settled
Delivered == attempt > 0 /\ promise # "pending"

\* C8: an attempt opens at most one tunnel; when the attempt has delivered
\* its result (resolved, rejected or returned), on whatever path, its tunnel
\* and the tunnels of all earlier attempts are closed; and every request is
\* sent through the tunnel its own attempt opened.
C8_TunnelClosedAtDelivery ==
    /\ \A t \in 1..Len(tunnels) : tunnels[t].owner \in 1..attempt
    /\ \A t, u \in 1..Len(tunnels) : t # u => tunnels[t].owner # tunnels[u].owner
    /\ \A t \in 1..Len(tunnels) :
          (tunnels[t].owner < attempt \/ Delivered) => tunnels[t].state = "closed"
    /\ \A r \in 1..Len(reqLog) :
          /\ reqLog[r].tunnel \in 1..Len(tunnels)
          /\ tunnels[reqLog[r].tunnel].owner = reqLog[r].attempt

\* the second attempt was rejected by a port-forward error after a first
\* attempt had delivered; both tunnels are closed
C8_Witness ==
    /\ attempt = 2 /\ promise = "rejected" /\ Len(tunnels) = 2
    /\ \A t \in 1..Len(tunnels) : tunnels[t].state = "closed"

\* the /coverage requests of the current attempt
CoverageRequests ==
    {r \in 1..Len(reqLog) : reqLog[r].attempt = attempt /\ reqLog[r].path = "/coverage"}

\* C9 as stated: a kubectl collect attempt issues at most five liveness
\* probes; when all five have failed it issues no /coverage request and
\* does not deliver a coverage file.
C9_NoFetchAfterFailedProbes ==
    kind = "collectKubectl" =>
        /\ probes <= MaxProbes
        /\ (probes = MaxProbes /\ ~probeOk) =>
              (CoverageRequests = {} /\ result # "file" /\ ~fileWritten)

(***************************************************************************)
(* Properties of the Node.js coverage server (SpecServer)                  *)
(***************************************************************************)

C12_StripsTagAndDigestOnly ==
    /\ Len(imgOut) >= 1 => imgOut[1] = imgIn.repo
    /\ Len(imgOut) = 2 => imgOut[2] = imgOut[1]


(***************************************************************************)
(* Properties of the path reconciliation (SpecPath)                        *)
(***************************************************************************)

ObservedSet == { observed[i] : i \in 1..Len(observed) }

\* the payload and the local tree of the example: /app/src/foo.js and
\* /app/src/bar.js observed, src/foo.js and src/bar.js under the source root
ExampleScene ==
    /\ ObservedSet = { AbsPath(<< NApp, NSrc, NFooJs >>), AbsPath(<< NApp, NSrc, NBarJs >>) }
    /\ existsSync(localFs, AbsPath(<< NW, NSrc, NFooJs >>))
    /\ existsSync(localFs, AbsPath(<< NW, NSrc, NBarJs >>))

\* the payloads with the keys of the observed one, in every order
Orderings == { p \in Payloads : { p[i] : i \in 1..Len(p) } = ObservedSet }

\* C18 as stated: in the example, path detection returns the single mapping
\* from /app/src/ to <root>/src/
C18_MappingIsCommonDirectory ==
    ExampleScene /\ detected.done =>
        detected.out = << [containerPrefix |-> AbsPath(<< NApp, NSrc >>) \o << "/" >>,
                           localPrefix |-> AbsPath(<< NW, NSrc >>) \o << "/" >>] >>

\* C18, amended: in the example, path detection returns the single mapping
\* from /app/ to <root>/ (what is left of the observed path and of the local
\* path when the longest matching suffix, src/foo.js, is removed), and the
\* mapping detected for a payload is the same for every ordering of its paths
C18_MappingIsRootBeforeMatchedSuffix ==
    /\ ExampleScene /\ detected.done =>
           detected.out = << [containerPrefix |-> AbsPath(<< NApp >>) \o << "/" >>,
                              localPrefix |-> SourceDir \o << "/" >>] >>
    /\ detected.done =>
           \A p \in Orderings : detectContainerPaths(localFs, p, SourceDir) = detected.out

C18_Witness ==
    /\ ExampleScene
    /\ detected.done
    /\ observed = << AbsPath(<< NApp, NSrc, NFooJs >>), AbsPath(<< NApp, NSrc, NBarJs >>) >>
    /\ Len(detected.out) = 1

\* every observed path exists locally
AllLocal == \A i \in 1..Len(observed) : existsSync(localFs, observed[i])

RemappedKeys == { remapped.out[i].key : i \in 1..Len(remapped.out) }

\* C19 as stated: when every observed path exists locally, the detected
\* mapping is empty and the output holds exactly the observed paths, each
\* unchanged
C19_NoOpWhenAllLocal ==
    /\ AllLocal /\ detected.done => detected.out = <<>>
    /\ AllLocal /\ remapped.done =>
           /\ RemappedKeys = ObservedSet
           /\ \A i \in 1..Len(remapped.out) : remapped.out[i].path = remapped.out[i].key

\* C19, amended: when every observed path exists locally, the detected
\* mapping is empty and the output holds, each unchanged, exactly the
\* observed paths that contain none of coverage_server, node_modules,
\* /server/, /client/ and /test/
C19_NoOpExceptInstrumentationWhenAllLocal ==
    /\ AllLocal /\ detected.done => detected.out = <<>>
    /\ AllLocal /\ remapped.done =>
           /\ RemappedKeys =
                  { p \in ObservedSet :
                        \A i \in 1..Len(InstrumentationPaths) :
                            ~Includes(p, InstrumentationPaths[i]) }
           /\ \A i \in 1..Len(remapped.out) : remapped.out[i].path = remapped.out[i].key

C19_Witness ==
    /\ AllLocal
    /\ detected.done /\ remapped.done
    /\ Len(observed) = 2
    /\ Len(remapped.out) = 1

(***************************************************************************)
(* Properties of the coverage processor (SpecConv)                         *)
(***************************************************************************)

\* the paths the final report names: those of the filtered text report for
\* the Go format, the keys of the JSON and the SF records of its LCOV
\* rendering for the NYC format
ReportedPaths ==
    { PathOfLine(report.filtered[i]) :
          i \in { k \in 1..Len(report.filtered) : HasPath(report.filtered[k]) } }
    \cup { report.json[i] : i \in 1..Len(report.json) }
    \cup { From(report.lcov[i], 4) : i \in 1..Len(report.lcov) }

\* C11: for both formats, no path containing a configured filter substring
\* appears in the final report, rewritten or not
C11_NoFilteredPathInReport ==
    \A path \in ReportedPaths :
        \A i \in 1..Len(opts.Filters) : ~Includes(path, opts.Filters[i])

(***************************************************************************)
(* Properties of generateLCOV (SpecLcov)                                   *)
(***************************************************************************)

\* the counted statements that start on a line
CountedOn(line) ==
    { id \in DOMAIN fileCoverage.statementMap :
          fileCoverage.statementMap[id] = line /\ fileCoverage.s[id] # NotCounted }

\* C20: there is exactly one DA record for each line on which a counted
\* statement starts and none for any other line, and its hit count is the
\* greatest of the counts of the statements starting on that line; counts 3
\* and 7 on line 10 give DA:10,7
C20_OneDAPerLineWithMaxHits ==
    lcov.done =>
        /\ \A line \in StartLines :
               Cardinality({ i \in 1..Len(lcov.DA) : lcov.DA[i].line = line })
                   = IF CountedOn(line) = {} THEN 0 ELSE 1
        /\ \A i \in 1..Len(lcov.DA) :
               /\ \E id \in CountedOn(lcov.DA[i].line) : fileCoverage.s[id] = lcov.DA[i].hits
               /\ \A id \in CountedOn(lcov.DA[i].line) : fileCoverage.s[id] <= lcov.DA[i].hits

\* two statements start on line 10, with counts 3 and 7, and DA:10,7 is written
C20_Witness ==
    /\ lcov.done
    /\ { fileCoverage.s[id] : id \in CountedOn(10) } = { 3, 7 }
    /\ Cardinality(CountedOn(10)) = 2
    /\ \E i \in 1..Len(lcov.DA) : lcov.DA[i] = [line |-> 10, hits |-> 7]

(***************************************************************************)
(* Properties of showNYCCoverageSummary (SpecSum)                          *)
(***************************************************************************)

\* the counts of the files, taken from the data one file at a time
FileTotals(what) ==
    [i \in 1..Len(summaryData) |->
        IF what = "Branches"
        THEN Cardinality(BranchSlots(summaryData[i].branches))
        ELSE IF what = "Functions" THEN Cardinality(summaryData[i].functions.ids)
        ELSE Cardinality(summaryData[i].statements.ids)]

\* C21: for statements, functions and branches alike, the percentage is
\* covered/total*100 when the total is above 0 and 0 when the total is 0 (no
\* division by 0), covered is at most the total, and a file without branches
\* adds nothing to the total of the branches
C21_PercentageGuardedAndBounded ==
    printed # << >> =>
        /\ \A what \in { "Statements", "Functions", "Branches" } :
               LET line == printed[1][what]
               IN  /\ line.pct.den # 0
                   /\ line.total > 0 => line.pct.num * line.total = line.covered * 100 * line.pct.den
                   /\ line.total = 0 => line.pct.num = 0
                   /\ line.covered <= line.total
                   /\ line.total = SumSeq(FileTotals(what))
        /\ \A i \in 1..Len(summaryData) :
               summaryData[i].branches.locations = << >> => FileTotals("Branches")[i] = 0

\* a file without branches beside one with branches, and a summary whose
\* functions total is 0
C21_Witness ==
    /\ printed # << >>
    /\ Len(summaryData) = 2
    /\ summaryData[1].branches = NoBranches
    /\ summaryData[2].branches # NoBranches
    /\ printed[1].Branches.total = 2
    /\ printed[1].Functions.total = 0
    /\ printed[1].Functions.pct = [num |-> 0, den |-> 1]

(***************************************************************************)
(* Properties of the steps of a target (Spec)                              *)
(***************************************************************************)

\* the targets whose record is in the manifest
Recorded ==
    { i \in 1..Len(log) :
          \E k \in 1..Len(manifest) : manifest[k] = ComponentInfoOf(podsToCollect[i]) }

\* C22: the steps of a target run in their fixed order, each at most once, a
\* record is appended only for a target whose steps, the conversion included
\* where it was asked for, all succeeded, and a failure in any step makes the
\* target a failed one
C22_RecordOnlyAfterAllStepsSucceeded ==
    CollectRun =>
        \A i \in 1..Len(log) :
            /\ \E n \in 1..4 :
                   log[i].steps = SubSeq(<< "mkdir", "client", "collect", "convert" >>, 1, n)
            /\ i \in Recorded => log[i].convert \in { "ok", "skipped" }
            /\ log[i].convert = "failed" => log[i].outcome # "ok"

(***************************************************************************)
(* Properties of the manifest-driven processing (Spec)                     *)
(***************************************************************************)

\* the passes of processFromManifest whose component was processed, with or
\* without its upload
ProcessedPasses == SelectSeq(log, LAMBDA e : e.outcome \in { "upload", "ok" })

\* C23: in manifest-driven processing the k-th pass attempts the k-th
\* component, a run that ended has made one pass per component of the
\* manifest whatever failed before, and it ends with a non-zero exit code if
\* and only if no component was processed, a failed upload alone not making
\* a component a failed one
C23_EveryComponentOnceFailureIffNoneProcessed ==
    ProcessRun =>
        /\ Len(log) <= Len(manifest)
        /\ \A k \in 1..Len(log) : log[k].target = k
        /\ Ended =>
               /\ Len(log) = Len(manifest)
               /\ exitCode \in { 0, 1 }
               /\ (exitCode # 0) <=> (ProcessedPasses = << >>)

\* three components: the first fails in its clone, the second only in its
\* upload, the third is processed; the run ended with exit code 0
C23_Witness ==
    /\ ProcessRun /\ Ended /\ exitCode = 0
    /\ [k \in 1..Len(log) |-> log[k].outcome] = << "clone", "upload", "ok" >>

(***************************************************************************)
(* Properties of the reconciled output (SpecPath)                          *)
(***************************************************************************)

\* the mapping the payload has: none or one
PayloadMapping == detectContainerPaths(localFs, observed, SourceDir)

LocalFiles == { localFs[i] : i \in 1..Len(localFs) }

\* C24: at most one prefix mapping is detected for a payload; every path of
\* the reconciled output is a local file and is an input path, unchanged
\* when it does not start with the container root and with the local root
\* in place of the container root when it does; no input path that is not
\* a local file after this step is in the output
C24_OneMappingAppliedToAll ==
    /\ detected.done => Len(detected.out) <= 1
    /\ remapped.done =>
           /\ Len(PayloadMapping) <= 1
           /\ \A i \in 1..Len(remapped.out) :
                  /\ remapped.out[i].key \in LocalFiles
                  /\ \E p \in ObservedSet :
                         IF PayloadMapping # << >>
                            /\ SubSeq(p, 1, Len(PayloadMapping[1].containerPrefix))
                                   = PayloadMapping[1].containerPrefix
                         THEN remapped.out[i].key
                                  = PayloadMapping[1].localPrefix
                                    \o SubSeq(p, Len(PayloadMapping[1].containerPrefix) + 1, Len(p))
                         ELSE remapped.out[i].key = p
           /\ \A p \in ObservedSet :
                  (p \notin LocalFiles /\ (PayloadMapping = << >>
                                           \/ ~HasPrefix(p, PayloadMapping[1].containerPrefix)))
                      => p \notin RemappedKeys

\* a payload of two paths under two container roots: one mapping, one path
\* rewritten to a local file, the other dropped
C24_Witness ==
    /\ detected.done /\ remapped.done
    /\ Len(detected.out) = 1
    /\ Len(observed) = 2
    /\ \A i \in 1..2 : observed[i] \notin LocalFiles
    /\ Len(remapped.out) = 1
    /\ remapped.out[1].key \notin ObservedSet
    /\ \E i \in 1..2 : ~HasPrefix(observed[i], detected.out[1].containerPrefix)

(***************************************************************************)
(* Properties of the branch records of generateLCOV (SpecLcov)             *)
(***************************************************************************)

\* C25: each location i of each branch with key k of branchMap has exactly
\* one BRDA record, with the count b[k][i], the branches numbered 0..n-1 in
\* the order they were met, whatever the keys are named and in whatever
\* order they are met
C25_OneBRDAPerAlternativeWithItsCount ==
    lcov.done =>
        \A g \in 1..Len(lcov.order) :
            \A n \in 1..fileCoverage.branchMap[lcov.order[g]].Locations :
                LET recs == { r \in 1..Len(lcov.BRDA) :
                                  lcov.BRDA[r].branchID = g - 1 /\ lcov.BRDA[r].i = n - 1 }
                IN  /\ Cardinality(recs) = 1
                    /\ \A r \in recs :
                           /\ lcov.BRDA[r].line = fileCoverage.branchMap[lcov.order[g]].Line
                           /\ lcov.BRDA[r].hits = fileCoverage.b[lcov.order[g]][n]

(***************************************************************************)
(* Properties of the common source prefix (SpecConv)                       *)
(***************************************************************************)

AbsoluteRecords == { opts.paths[i] : i \in { k \in 1..Len(opts.paths) : IsAbs(opts.paths[k]) } }

\* C26: the detected common prefix, when not empty, ends with the separator
\* and is the path of a directory above every absolute path of the records,
\* so that each of them starts with it
C26_PrefixIsAncestorOfEveryAbsolutePath ==
    report.sourcePrefix # EmptyStr =>
        /\ report.sourcePrefix[Len(report.sourcePrefix)] = "/"
        /\ \A path \in AbsoluteRecords :
               SubSeq(path, 1, Len(report.sourcePrefix)) = report.sourcePrefix

(***************************************************************************)
(* Properties of the choice among equal candidates (SpecPath)              *)
(***************************************************************************)

\* the local trees with the files of the one at hand, in any order
Enumerations ==
    { fs \in LocalTrees : { fs[i] : i \in 1..Len(fs) } = LocalFiles }

\* C27: the mapping detected for a payload is the same for every order in
\* which the local source tree is enumerated, also when local files tie for
\* the highest score of an unresolved path
C27_SameMappingForEveryEnumeration ==
    detected.done =>
        \A fs \in Enumerations : detectContainerPaths(fs, observed, SourceDir) = detected.out

(***************************************************************************)
(* C28: the process phase treats collected data as read-only: whatever     *)
(* --workspace and --keep-workspace are, metadata.json and every component  *)
(* coverage directory that existed before the run still exist during and    *)
(* after it, in the manifest and in the legacy workflow.                    *)
(***************************************************************************)
C28_CollectedDataSurvives == CollectedData(procOpts) \subseteq disk

(***************************************************************************)
(* C29: in the legacy workflow with keep-workspace off, a workspace         *)
(* directory that was created is eventually removed, whichever way the run  *)
(* ends: by the return of runProcess or by one of its failure exits.        *)
(***************************************************************************)
C29_CreatedWorkspaceEventuallyRemoved ==
    (run.workspace # NoPath /\ ~procOpts.keepWorkspace) ~> (run.workspace \notin disk)

(***************************************************************************)
(* C30: in the kubectl collect the promise is settled once, whatever the    *)
(* order of the port-forward process's error event and the continuation     *)
(* behind the sleep: once the error has rejected the attempt the rejection  *)
(* stands, no /coverage request is sent any more and no coverage file is    *)
(* written for the attempt.                                                 *)
(***************************************************************************)
C30_NothingAfterPortForwardRejection ==
    (kind = "collectKubectl" /\ rejectedAt # NotRejected) =>
        /\ promise = "rejected" /\ result = "error"
        /\ Cardinality(CoverageRequests) = rejectedAt.reqs
        /\ fileWritten = rejectedAt.file
====
